---------------------------- MODULE Spec2Model ----------------------------
(***************************************************************************)
(* A model of the special-function test-value scripts of dotnet/infer:     *)
(*   src/src/Tools/PythonScripts/ComputeSpecialFunctionsTestValues.py      *)
(*   src/src/Tools/GenerateSeries/ComputeSpecialFunctionsTestValues.py     *)
(* The two files are two versions of the same script; the variable         *)
(* `script` says which of them is being run.                               *)
(*                                                                         *)
(* Text cells are tuples of one-character strings, so that str.replace,    *)
(* str.endswith and string equality are computed and not assumed.          *)
(* Numbers are extended numbers: a finite integer (in the unit named at    *)
(* each use), +inf, -inf or nan.  The results of mpmath and sympy          *)
(* primitives are symbolic terms; what mpmath.quad returns is an input of  *)
(* the evaluation (an integral magnitude and an error magnitude, powers of *)
(* ten), because the source does not decide it.                            *)
(***************************************************************************)
EXTENDS Integers, Sequences, FiniteSets, TLC

VARIABLES
    script,     \* which version of the script runs
    lib,        \* what mpmath.quad does on finite arguments in this run
    orig,       \* the directory's files before the run (never changes)
    files,      \* entry index -> current rows of that file
    idx,        \* position of the os.scandir iteration
    pc,         \* "scan", "rows", "done" or "crashed"
    rowi,       \* position of the csv reader in the open file
    newrows,    \* newrows of the open file
    processing, \* entries for which 'Processing ...' was printed
    skipped,    \* entries for which "Don't know how to process" was printed
    written,    \* entries opened with mode 'w'
    called,     \* <<entry, row position>> for which f(*args) was called
    fieldnames, \* reader.fieldnames of the open file
    dps,        \* mpmath.mp.dps, the global working precision
    dpslog,     \* <<"set" | "eval" | "prim", precision>>: what happened under which dps
    efn,        \* evaluator run: the function called
    eargs,      \* evaluator run: its arguments
    eq,         \* evaluator run: what the library call returned, if one was made
    eres,       \* evaluator run: the instrumented result
    epc         \* evaluator run: "idle", "ready" or "returned"

batchVars == <<script, lib, orig, files, idx, pc, rowi, newrows,
               processing, skipped, written, called, fieldnames, dps, dpslog>>
evalVars == <<efn, eargs, eq, eres, epc>>
vars == <<script, lib, orig, files, idx, pc, rowi, newrows,
          processing, skipped, written, called, fieldnames, dps, dpslog,
          efn, eargs, eq, eres, epc>>

Scripts == {"PythonScripts", "GenerateSeries"}

(***************************************************************************)
(* Text                                                                    *)
(***************************************************************************)
STR_NaN == <<"N", "a", "N">>
STR_nan == <<"n", "a", "n">>
STR_Infinity == <<"I", "n", "f", "i", "n", "i", "t", "y">>
STR_NegInfinity == <<"-", "I", "n", "f", "i", "n", "i", "t", "y">>
STR_inf == <<"i", "n", "f">>
STR_neginf == <<"-", "i", "n", "f">>
STR_oo == <<"o", "o">>
STR_csv == <<".", "c", "s", "v">>
NAME_logisticGaussian == <<"l", "o", "g", "i", "s", "t", "i", "c", "G", "a", "u", "s", "s", "i", "a", "n", ".", "c", "s", "v">>
NAME_logisticGaussianDeriv == <<"l", "o", "g", "i", "s", "t", "i", "c", "G", "a", "u", "s", "s", "i", "a", "n", "D", "e", "r", "i", "v", ".", "c", "s", "v">>
NAME_logisticGaussianDeriv2 == <<"l", "o", "g", "i", "s", "t", "i", "c", "G", "a", "u", "s", "s", "i", "a", "n", "D", "e", "r", "i", "v", "2", ".", "c", "s", "v">>
NAME_ulp == <<"u", "l", "p", ".", "c", "s", "v">>
NAME_NormalCdfRatioLn2 == <<"N", "o", "r", "m", "a", "l", "C", "d", "f", "R", "a", "t", "i", "o", "L", "n", "2", ".", "c", "s", "v">>
NAME_BetaCdf == <<"B", "e", "t", "a", "C", "d", "f", ".", "c", "s", "v">>
NAME_Custom == <<"C", "u", "s", "t", "o", "m", ".", "c", "s", "v">>
NAME_notes == <<"n", "o", "t", "e", "s", ".", "t", "x", "t">>

\* str.replace(old, new): left to right, non-overlapping
RECURSIVE replace(_, _, _)
replace(s, old, new) ==
    IF Len(s) < Len(old) THEN s
    ELSE IF SubSeq(s, 1, Len(old)) = old
         THEN new \o replace(SubSeq(s, Len(old) + 1, Len(s)), old, new)
         ELSE <<Head(s)>> \o replace(Tail(s), old, new)

\* str.endswith(suffix)
endswith(s, suffix) ==
    /\ Len(s) >= Len(suffix)
    /\ SubSeq(s, Len(s) - Len(suffix) + 1, Len(s)) = suffix

float_str_csharp_to_python(s) ==
    replace(replace(s, STR_NaN, STR_nan), STR_Infinity, STR_inf)

float_str_python_to_csharp_NoOO(s) ==
    replace(replace(s, STR_nan, STR_NaN), STR_inf, STR_Infinity)

float_str_python_to_csharp(s) ==
    replace(replace(replace(s, STR_nan, STR_NaN), STR_inf, STR_Infinity),
            STR_oo, STR_Infinity)

(***************************************************************************)
(* Extended numbers                                                        *)
(***************************************************************************)
Fin(n) == [k |-> "fin", v |-> n]
PosInf == [k |-> "inf", v |-> 1]
NegInf == [k |-> "inf", v |-> -1]
NaN == [k |-> "nan", v |-> 0]

IsNaN(a) == a.k = "nan"
IsFinite(a) == a.k = "fin"

\* ==, < and <= of mpmath numbers: every comparison with nan is false
NumEq(a, b) == ~IsNaN(a) /\ ~IsNaN(b) /\ a = b
NumLt(a, b) ==
    /\ ~IsNaN(a) /\ ~IsNaN(b)
    /\ CASE a.k = "fin" /\ b.k = "fin" -> a.v < b.v
         [] a.k = "inf" /\ b.k = "inf" -> a.v < b.v
         [] a.k = "inf" -> a.v < 0
         [] OTHER -> b.v > 0
NumLe(a, b) == NumLt(a, b) \/ NumEq(a, b)
NumNeg(a) == IF a.k = "nan" THEN a ELSE [a EXCEPT !.v = -a.v]
NumAbs_Identity(a) == a

NumAbs(a) == IF a.k = "nan" THEN a ELSE [a EXCEPT !.v = IF a.v < 0 THEN -a.v ELSE a.v]
NumAdd(a, b) ==
    CASE IsNaN(a) \/ IsNaN(b) -> NaN
      [] a.k = "fin" /\ b.k = "fin" -> Fin(a.v + b.v)
      [] a.k = "inf" /\ b.k = "inf" -> IF a.v = b.v THEN a ELSE NaN
      [] a.k = "inf" -> a
      [] OTHER -> b
\* c * a for an integer c > 0
NumScale(c, a) == IF a.k = "fin" THEN Fin(c * a.v) ELSE a

(***************************************************************************)
(* Quadrature outcomes and instrumented results                            *)
(***************************************************************************)
\* a magnitude: zero, 10^e, or nan
MagZero == [c |-> "zero", e |-> 0]
MagPow(e) == [c |-> "pow", e |-> e]
MagNaN == [c |-> "nan", e |-> 0]

\* the factor mpmath.mpf('1e50') of the precision test, as a power of ten
ErrFactorExp == 50

\* mpmath.mpf('1e50') * abs(err) > abs(int)
Suspicious_Flipped(int, err) ==
    /\ int.c # "nan" /\ err.c # "nan"
    /\ int.c # "zero"
    /\ (err.c = "zero" \/ ErrFactorExp + err.e < int.e)

Suspicious(int, err) ==
    /\ int.c # "nan" /\ err.c # "nan"
    /\ err.c # "zero"
    /\ (int.c = "zero" \/ ErrFactorExp + err.e > int.e)

\* symbolic values
V_oo == [k |-> "oo"]
V_nan == [k |-> "nan"]
V_zero == [k |-> "zero"]
Lit(s) == [k |-> "lit", s |-> s]
V_asym(z) == [k |-> "asym", zero |-> z]
V_quad(coef, int) == [k |-> "quad", coef |-> coef, int |-> int]

\* a call that returned val without integrating
Ret(val) ==
    [val |-> val, exc |-> "none", quads |-> 0, printed |-> 0,
     arith |-> FALSE, depth |-> 0, qargs |-> <<>>, calls |-> {},
     inest |-> 0, icalls |-> 0]
\* a call that raised exc
Raise(exc) ==
    [val |-> V_nan, exc |-> exc, quads |-> 0, printed |-> 0,
     arith |-> FALSE, depth |-> 0, qargs |-> <<>>, calls |-> {},
     inest |-> 0, icalls |-> 0]
\* int, err = mpmath.quad(...); the diagnostic; return Float(coef * int)
QuadReturn_Retry(coef, q, at) ==
    IF q.exc # "none" THEN [Raise(q.exc) EXCEPT !.quads = 1, !.qargs = <<at>>]
    ELSE [val |-> V_quad(coef, q.int), exc |-> "none",
          quads |-> IF Suspicious(q.int, q.err) THEN 2 ELSE 1,
          printed |-> IF Suspicious(q.int, q.err) THEN 1 ELSE 0,
          arith |-> FALSE, depth |-> 0, qargs |-> <<at>>, calls |-> {},
          inest |-> 0, icalls |-> 0]

QuadReturn(coef, q, at) ==
    IF q.exc # "none" THEN [Raise(q.exc) EXCEPT !.quads = 1, !.qargs = <<at>>]
    ELSE [val |-> V_quad(coef, q.int), exc |-> "none", quads |-> 1,
          printed |-> IF Suspicious(q.int, q.err) THEN 1 ELSE 0,
          arith |-> FALSE, depth |-> 0, qargs |-> <<at>>, calls |-> {},
          inest |-> 0, icalls |-> 0]

Touch(res, operands) ==
    [res EXCEPT !.arith = @ \/ (\E a \in operands : ~IsFinite(a))]

to_mpmath(x) ==
    IF x = NegInf THEN NegInf
    ELSE IF x = PosInf THEN PosInf
    ELSE x


(***************************************************************************)
(* The logistic-Gaussian family.  m and v are in units of 1.               *)
(***************************************************************************)
\* log(mpmath.mpf('1e-500')) = -1151.29...: for integers, s < logEpsilon
\* exactly when s < -1151
logEpsilon == -1151
\* mpmath.tanh(m) == 1 at 500 digits: 2 * exp(-2 m) < 10^-500, m >= 576
TanhOne == 576

\* logistic_gaussian of the PythonScripts version
logistic_gaussian_PS(m, v, q) ==
    IF m = PosInf
    THEN IF v = PosInf THEN Ret(V_oo) ELSE Ret(Lit("1.0"))
    ELSE IF v = PosInf THEN Ret(Lit("0.5"))
    ELSE LET mmpf == to_mpmath(m)
             vmpf == to_mpmath(v)
         IN  IF NumLt(NumAdd(NumScale(2, mmpf), NumScale(4, vmpf)), Fin(logEpsilon))
             THEN Touch(Ret(V_asym(~IsFinite(mmpf) \/ ~IsFinite(vmpf))), {mmpf, vmpf})
             ELSE IF IsFinite(mmpf) /\ mmpf.v >= TanhOne
             THEN Touch(Ret(Lit("1.0")), {mmpf, vmpf})
             ELSE IF vmpf = Fin(0)
             THEN Touch(Raise("ZeroDivisionError"), {mmpf, vmpf})
             ELSE Touch(QuadReturn("1/sqrt(2pi)", q, <<mmpf, vmpf>>), {mmpf, vmpf})

\* logistic_gaussian of the GenerateSeries version
logistic_gaussian_GS(m, v, q) ==
    IF m = PosInf
    THEN IF v = PosInf THEN Ret(V_oo) ELSE Ret(Lit("1.0"))
    ELSE IF v = PosInf THEN Ret(Lit("0.5"))
    ELSE IF IsFinite(m) /\ m.v >= TanhOne
    THEN Ret(Lit("1.0"))
    ELSE IF v = Fin(0)
    THEN Raise("ZeroDivisionError")
    ELSE Touch(QuadReturn("1/sqrt(2pi v)", q, <<m, v>>), {m, v})

\* logistic_gaussian with the v == oo test ahead of the m == oo test
logistic_gaussian_VarianceFirst(s, m, v, q) ==
    IF v = PosInf THEN Ret(Lit("0.5"))
    ELSE IF s = "PythonScripts" THEN logistic_gaussian_PS(m, v, q)
    ELSE logistic_gaussian_GS(m, v, q)

logistic_gaussian(s, m, v, q) ==
    IF s = "PythonScripts" THEN logistic_gaussian_PS(m, v, q)
    ELSE logistic_gaussian_GS(m, v, q)

\* m.is_infinite or v.is_infinite
is_infinite_PosOnly(x) == x = PosInf

is_infinite(x) == x.k = "inf"

logistic_gaussian_deriv(m, v, q) ==
    IF is_infinite(m) \/ is_infinite(v) THEN Ret(Lit("0.0"))
    ELSE IF v = Fin(0)
    THEN Raise("ZeroDivisionError")
    ELSE Touch(QuadReturn("0.5/sqrt(2pi v)", q, <<m, v>>), {m, v})

logistic_gaussian_deriv2(m, v, q) ==
    IF is_infinite(m) \/ is_infinite(v) THEN Ret(Lit("0.0"))
    ELSE IF v = Fin(0)
    THEN Raise("ZeroDivisionError")
    ELSE Touch(QuadReturn("0.5/sqrt(2pi v)", q, <<m, v>>), {m, v})


(***************************************************************************)
(* The bivariate normal CDF.  x and y are in units of 0.01, r in units of  *)
(* 1e-7 (ROne is r = 1).                                                   *)
(***************************************************************************)
ROne == 10000000

V_one == [k |-> "one"]
V_ncdf(n) == [k |-> "ncdf", a |-> n]
V_sub(a, b) == [k |-> "sub", a |-> a, b |-> b]
V_add(a, b) == [k |-> "add", a |-> a, b |-> b]
V_max0(a) == [k |-> "max0", a |-> a]
V_ln(a) == [k |-> "ln", a |-> a]
V_expr(tag, parts) == [k |-> "expr", tag |-> tag, parts |-> parts]

\* mpmath.ncdf: 0 at -inf, 1 at +inf, nan at nan
ncdf(a) ==
    CASE a = NegInf -> V_zero
      [] a = PosInf -> V_one
      [] a = NaN -> V_nan
      [] OTHER -> V_ncdf(a.v)

\* Python's min(a, b): b if b < a, else a
min_Swapped(a, b) == IF NumLt(a, b) THEN b ELSE a

min(a, b) == IF NumLt(b, a) THEN b ELSE a

\* the result of a call whose value is built from the sub-call `sub`
Wrap(sub, val, name) ==
    IF sub.exc # "none" THEN [sub EXCEPT !.calls = @ \cup {name}]
    ELSE [sub EXCEPT !.val = val, !.calls = @ \cup {name}]

\* the result of an expression that evaluates a, then b
Join(a, b, val) ==
    IF a.exc # "none" THEN a
    ELSE [val |-> IF b.exc # "none" THEN V_nan ELSE val,
          exc |-> b.exc,
          quads |-> a.quads + b.quads,
          printed |-> a.printed + b.printed,
          arith |-> a.arith \/ b.arith,
          depth |-> IF a.depth > b.depth THEN a.depth ELSE b.depth,
          qargs |-> a.qargs \o b.qargs,
          calls |-> a.calls \cup b.calls,
          inest |-> IF a.inest > b.inest THEN a.inest ELSE b.inest,
          icalls |-> a.icalls + b.icalls]

\* mpmath.mpf('0') if x <= -y else mpmath.ncdf(x) - mpmath.ncdf(-y)
StripTerm_Unguarded(x, y) == V_sub(ncdf(x), ncdf(NumNeg(y)))

StripTerm(x, y) ==
    IF NumLe(x, NumNeg(y)) THEN V_zero ELSE V_sub(ncdf(x), ncdf(NumNeg(y)))

\* abs(y) > abs(x): the two arguments change places
NeedSwap_Never(x, y) == FALSE

NeedSwap(x, y) == NumLt(NumAbs(x), NumAbs(y))

RECURSIVE mpmath_normal_cdf2(_, _, _, _)
\* mpmath_normal_cdf2 with the x + y > 0 reflection also negating r
mpmath_normal_cdf2_FlipR(x0, y0, r, q) ==
    IF NumEq(x0, NegInf) \/ NumEq(y0, NegInf) THEN Ret(V_zero)
    ELSE IF NumEq(x0, PosInf) THEN Ret(ncdf(y0))
    ELSE IF NumEq(y0, PosInf) THEN Ret(ncdf(x0))
    ELSE IF NumEq(r, Fin(ROne)) THEN Ret(ncdf(min(x0, y0)))
    ELSE IF NumEq(r, Fin(-ROne)) THEN Touch(Ret(StripTerm(x0, y0)), {y0})
    ELSE LET swap == NeedSwap(x0, y0)
             x == IF swap THEN y0 ELSE x0
             y == IF swap THEN x0 ELSE y0
         IN  IF NumLt(r, Fin(0))
             THEN LET rec == mpmath_normal_cdf2(x, NumNeg(y), NumNeg(r), q)
                  IN  Touch([Wrap(rec, V_max0(V_sub(ncdf(x), rec.val)), "mpmath_normal_cdf2")
                                EXCEPT !.depth = rec.depth + 1], {x, y, r})
             ELSE IF NumLt(Fin(0), NumAdd(x, y))
             THEN LET rec == mpmath_normal_cdf2(NumNeg(x), NumNeg(y), NumNeg(r), q)
                  IN  Touch([Wrap(rec, V_add(rec.val, StripTerm(x, y)), "mpmath_normal_cdf2")
                                EXCEPT !.depth = rec.depth + 1], {x, y})
             ELSE Touch(QuadReturn("1", q, <<x, y, r>>), {x, y, r})

mpmath_normal_cdf2(x0, y0, r, q) ==
    IF NumEq(x0, NegInf) \/ NumEq(y0, NegInf) THEN Ret(V_zero)
    ELSE IF NumEq(x0, PosInf) THEN Ret(ncdf(y0))
    ELSE IF NumEq(y0, PosInf) THEN Ret(ncdf(x0))
    ELSE IF NumEq(r, Fin(ROne)) THEN Ret(ncdf(min(x0, y0)))
    ELSE IF NumEq(r, Fin(-ROne)) THEN Touch(Ret(StripTerm(x0, y0)), {y0})
    ELSE LET swap == NeedSwap(x0, y0)
             x == IF swap THEN y0 ELSE x0
             y == IF swap THEN x0 ELSE y0
         IN  IF NumLt(r, Fin(0))
             THEN LET rec == mpmath_normal_cdf2(x, NumNeg(y), NumNeg(r), q)
                  IN  Touch([Wrap(rec, V_max0(V_sub(ncdf(x), rec.val)), "mpmath_normal_cdf2")
                                EXCEPT !.depth = rec.depth + 1], {x, y, r})
             ELSE IF NumLt(Fin(0), NumAdd(x, y))
             THEN LET rec == mpmath_normal_cdf2(NumNeg(x), NumNeg(y), r, q)
                  IN  Touch([Wrap(rec, V_add(rec.val, StripTerm(x, y)), "mpmath_normal_cdf2")
                                EXCEPT !.depth = rec.depth + 1], {x, y})
             ELSE Touch(QuadReturn("1", q, <<x, y, r>>), {x, y, r})

normal_cdf2(x, y, r, q) ==
    Wrap(mpmath_normal_cdf2(to_mpmath(x), to_mpmath(y), to_mpmath(r), q),
         mpmath_normal_cdf2(to_mpmath(x), to_mpmath(y), to_mpmath(r), q).val,
         "mpmath_normal_cdf2")

\* the argument triples of normal_cdf_ln2 that were computed separately:
\* -0.2999... and -0.1000... (x, y); -0.999999, -0.99999 and -0.9999 (r)
LN2_XY_A == -30
LN2_XY_B == -10
LN2_R_1 == -9999990
LN2_R_2 == -9999900
LN2_R_3 == -9999000

normal_cdf_ln2_NoRCheck(x, y, r, q) ==
    IF x = Fin(LN2_XY_A) /\ y = Fin(LN2_XY_A) /\ r = Fin(LN2_R_1)
    THEN Ret(Lit("-90020.4997847132695760821045836463571450496491084868602301611"))
    ELSE IF x = Fin(LN2_XY_B) /\ y = Fin(LN2_XY_B)
    THEN Ret(Lit("-10018.3026957438325237319456255040365689256268122985682785824"))
    ELSE LET z == mpmath_normal_cdf2(to_mpmath(x), to_mpmath(y), to_mpmath(r), q)
         IN  Wrap(z, V_ln(z.val), "mpmath_normal_cdf2")

normal_cdf_ln2(x, y, r, q) ==
    IF x = Fin(LN2_XY_A) /\ y = Fin(LN2_XY_A) /\ r = Fin(LN2_R_1)
    THEN Ret(Lit("-90020.4997847132695760821045836463571450496491084868602301611"))
    ELSE IF x = Fin(LN2_XY_B) /\ y = Fin(LN2_XY_B) /\ r = Fin(LN2_R_1)
    THEN Ret(Lit("-10018.3026957438325237319456255040365689256268122985682785824"))
    ELSE IF x = Fin(LN2_XY_B) /\ y = Fin(LN2_XY_B) /\ r = Fin(LN2_R_2)
    THEN Ret(Lit("-1014.85016355878529115329386335426754801497185281882358946348"))
    ELSE IF x = Fin(LN2_XY_B) /\ y = Fin(LN2_XY_B) /\ r = Fin(LN2_R_3)
    THEN Ret(Lit("-111.409512020775362450645082754211442935050576861888726532"))
    ELSE LET z == mpmath_normal_cdf2(to_mpmath(x), to_mpmath(y), to_mpmath(r), q)
         IN  Wrap(z, V_ln(z.val), "mpmath_normal_cdf2")

(***************************************************************************)
(* normal_cdf_integral, normal_cdf_integral_ratio and beta_cdf of the      *)
(* PythonScripts version.  Their arguments are sympy numbers: an order     *)
(* comparison with nan raises TypeError.                                   *)
(***************************************************************************)
\* Float('1e-12') on the r grid: the one grid point between r = -1 and
\* r = -1 + 1e-7 stands for the values of r with 0 < 1 + r < 1e-12
RTiny == 2

\* S(1) on the grid of beta_cdf's x (units of 0.01)
BetaOne == 100

IsZeroVal_IntegerOnly(v) == v.k = "zero"

\* int_z == S(0): the Integer 0 and Float('0.0') both compare equal to S(0)
IsZeroVal(v) == v.k = "zero" \/ (v.k = "lit" /\ v.s = "0.0")

normal_cdf_moment_ratio(n, x) ==
    IF IsNaN(x) THEN Raise("TypeError")
    ELSE IF NumLt(x, Fin(0)) THEN Ret(V_expr("hyperu", <<n, x>>))
    ELSE Ret(V_expr("pcfu", <<n, x>>))

\* 1 + r < Float('1e-12')
NearMinusOne_AnyNegative(r) == NumLt(r, Fin(0))

NearMinusOne(r) == NumLt(NumAdd(Fin(ROne), r), Fin(RTiny))

RECURSIVE normal_cdf_integral(_, _, _, _)
normal_cdf_integral(x, y, r, q) ==
    IF x = NegInf \/ y = NegInf THEN Ret(Lit("0.0"))
    ELSE IF x = PosInf THEN Ret(V_oo)
    ELSE IF y = PosInf
    THEN LET result == normal_cdf2(x, y, r, q)
         IN  IF IsNaN(x) THEN Wrap(Raise("TypeError"), V_nan, "normal_cdf2")
             ELSE IF NumLt(Fin(0), x)
             THEN Wrap(result, V_expr("y=oo,x>0", <<result.val, x>>), "normal_cdf2")
             ELSE Wrap(Join(result, normal_cdf_moment_ratio("1.0", x),
                            V_expr("y=oo,x<=0", <<result.val, x>>)),
                       V_expr("y=oo,x<=0", <<result.val, x>>), "normal_cdf2")
    ELSE IF NumEq(r, Fin(ROne))
    THEN IF IsNaN(x) \/ IsNaN(y) THEN Raise("TypeError")
         ELSE IF NumLe(x, y)
         THEN Wrap(normal_cdf_moment_ratio("1.0", x), V_expr("r=1,x<=y", <<x>>),
                   "normal_cdf_moment_ratio")
         ELSE Wrap(normal_cdf_moment_ratio("1.0", y), V_expr("r=1,x>y", <<x, y>>),
                   "normal_cdf_moment_ratio")
    ELSE IF NumEq(r, Fin(-ROne))
    THEN IF IsNaN(x) \/ IsNaN(y) THEN Raise("TypeError")
         ELSE IF NumLe(NumAdd(x, y), Fin(0)) THEN Ret(V_zero)
         ELSE Ret(V_expr("r=-1,x+y>0", <<x, y>>))
    ELSE IF IsNaN(x) THEN Raise("TypeError")
    ELSE IF NumLt(Fin(0), x) /\ IsNaN(y) THEN Raise("TypeError")
    ELSE IF NumLt(Fin(0), x) /\ NumLt(Fin(0), y) /\ IsNaN(r) THEN Raise("TypeError")
    ELSE IF NumLt(Fin(0), x) /\ NumLt(Fin(0), y) /\ NearMinusOne(r)
    THEN LET a == normal_cdf_integral(x, y, Fin(-ROne), q)
             b == normal_cdf_integral(NumNeg(x), NumNeg(y), r, q)
         IN  [Wrap(Join(a, b, V_sub(a.val, b.val)), V_sub(a.val, b.val),
                   "normal_cdf_integral")
                EXCEPT !.depth = 1 + (IF a.depth > b.depth THEN a.depth ELSE b.depth),
                       !.inest = 1 + @,
                       !.icalls = @ + (IF a.exc = "none" THEN 2 ELSE 1)]
    ELSE LET z == normal_cdf2(x, y, r, q)
         IN  Wrap(z, V_expr("general", <<x, y, r, z.val>>), "normal_cdf2")

\* the argument triples of normal_cdf_integral_ratio that were computed
\* separately.  x and y in units of 0.01, r in units of 1e-7; the two y of
\* magnitude 1e9 and 1e12 lie beyond the integers of the model and are held
\* by two stand-ins that keep their order.
IR_X_1 == -3906249
IR_Y_1 == 3906250
IR_R_1 == -9999998
IR_X_2 == -82444
IR_Y_2 == -2330071
IR_R_2 == -9991576
IR_X_3 == 79080
IR_Y_3 == -2000000000
IR_R_3 == -9458744
IR_Y_4 == -2100000000

normal_cdf_integral_ratio(x, y, r, q) ==
    IF x = Fin(IR_X_1) /\ y = Fin(IR_Y_1) /\ r = Fin(IR_R_1)
    THEN Ret(Lit("0.000025600004960154713498351213672772546931354593117186546685502492546785021612"))
    ELSE IF x = Fin(IR_X_2) /\ y = Fin(IR_Y_2) /\ r = Fin(IR_R_2)
    THEN Ret(Lit("6.9859450855259114E-08"))
    ELSE IF x = Fin(IR_X_3) /\ y = Fin(IR_Y_3) /\ r = Fin(IR_R_3)
    THEN Ret(Lit("1.0293108592794333E-10"))
    ELSE IF x = Fin(IR_X_3) /\ y = Fin(IR_Y_4) /\ r = Fin(IR_R_3)
    THEN Ret(Lit("1.0293107755790882E-13"))
    ELSE LET int_z == Wrap(normal_cdf_integral(x, y, r, q),
                           normal_cdf_integral(x, y, r, q).val, "normal_cdf_integral")
             z == normal_cdf2(x, y, r, q)
         IN  IF int_z.exc # "none" \/ IsZeroVal(int_z.val) THEN int_z
             ELSE Join(int_z, z, V_expr("int_z / z", <<int_z.val, z.val>>))

\* beta_cdf; mpmath.betainc is a library call: it returns a number or nan, or raises
beta_cdf(x, a, b, q) ==
    IF IsNaN(x) THEN Raise("TypeError")
    ELSE IF NumLe(x, Fin(0)) THEN Ret(Lit("0.0"))
    ELSE IF NumLe(Fin(BetaOne), x) THEN Ret(Lit("1.0"))
    ELSE IF q.exc # "none" THEN Wrap(Raise(q.exc), V_nan, "betainc")
    ELSE IF q.int.c = "nan" THEN Wrap(Ret(V_nan), V_nan, "betainc")
    ELSE Wrap(Ret(V_expr("betainc", <<x, a, b>>)), V_expr("betainc", <<x, a, b>>), "betainc")

(***************************************************************************)
(* The batch run: the loop over the data directory                         *)
(***************************************************************************)
\* pair_info, for the names the modelled directory can hold
pair_info(s) ==
    [n \in {NAME_logisticGaussian, NAME_logisticGaussianDeriv,
            NAME_logisticGaussianDeriv2, NAME_BetaCdf,
            NAME_NormalCdfRatioLn2, NAME_ulp} |->
        CASE n = NAME_logisticGaussian -> "logistic_gaussian"
          [] n = NAME_logisticGaussianDeriv -> "logistic_gaussian_deriv"
          [] n = NAME_logisticGaussianDeriv2 -> "logistic_gaussian_deriv2"
          [] n = NAME_BetaCdf -> IF s = "PythonScripts" THEN "beta_cdf" ELSE "None"
          [] OTHER -> "None"]

\* number of parameters of the registered functions
Arity(f) == IF f = "beta_cdf" THEN 3 ELSE 2

\* f(*args)
Apply(s, f, args, q) ==
    IF Len(args) # Arity(f) THEN Raise("TypeError")
    ELSE CASE f = "logistic_gaussian" -> logistic_gaussian(s, args[1], args[2], q)
           [] f = "logistic_gaussian_deriv" -> logistic_gaussian_deriv(args[1], args[2], q)
           [] f = "logistic_gaussian_deriv2" -> logistic_gaussian_deriv2(args[1], args[2], q)
           [] OTHER -> beta_cdf(args[1], args[2], args[3], q)

\* mpmath's working precision when the module is imported
DefaultDps == 15

\* the precision every assignment of the scripts sets
WorkDps == 500

\* does the call run `mpmath.mp.dps = 500`?  Only the functions of the
\* GenerateSeries version do, after their closed-form guards.
AssignsDps_Never(s, f, args) == FALSE

AssignsDps(s, f, args) ==
    /\ s = "GenerateSeries"
    /\ CASE f = "logistic_gaussian" -> ~(args[1] = PosInf \/ args[2] = PosInf)
         [] f \in {"logistic_gaussian_deriv", "logistic_gaussian_deriv2"} ->
                ~(is_infinite(args[1]) \/ is_infinite(args[2]))
         [] OTHER -> FALSE

\* does the call evaluate an mpmath primitive (a conversion to mpf, tanh,
\* sqrt, quad, betainc)?  It does once its closed-form guards are passed.
UsesMpmath(s, f, args) ==
    CASE f = "logistic_gaussian" -> ~(args[1] = PosInf \/ args[2] = PosInf)
      [] f \in {"logistic_gaussian_deriv", "logistic_gaussian_deriv2"} ->
             ~(is_infinite(args[1]) \/ is_infinite(args[2]))
      [] OTHER -> /\ ~IsNaN(args[1])
                  /\ NumLt(Fin(0), args[1]) /\ NumLt(args[1], Fin(BetaOne))

\* mpmath.mp.dps after the call f(*args) that started under precision d
DpsAfter(s, f, args, d) == IF AssignsDps(s, f, args) THEN WorkDps ELSE d

\* what the call f(*args) does under which precision
DpsEvents(s, f, args, d) ==
    {<<"eval", d>>}
    \cup (IF AssignsDps(s, f, args) THEN {<<"set", WorkDps>>} ELSE {})
    \cup (IF UsesMpmath(s, f, args) THEN {<<"prim", DpsAfter(s, f, args, d)>>} ELSE {})

\* sympy's Float(str), for 'inf', '-inf', 'nan' and signed decimal integers
DigitChars == <<"0", "1", "2", "3", "4", "5", "6", "7", "8", "9">>
IsDigits(s) == Len(s) > 0 /\ \A i \in 1..Len(s) : \E d \in 1..10 : DigitChars[d] = s[i]
DigitVal(c) == (CHOOSE d \in 1..10 : DigitChars[d] = c) - 1
RECURSIVE DigitsVal(_, _)
DigitsVal(s, acc) ==
    IF s = <<>> THEN acc ELSE DigitsVal(Tail(s), 10 * acc + DigitVal(Head(s)))
Float(s) ==
    CASE s = STR_inf -> PosInf
      [] s = STR_neginf -> NegInf
      [] s = STR_nan -> NaN
      [] IsDigits(s) -> Fin(DigitsVal(s, 0))
      [] Len(s) > 1 /\ Head(s) = "-" /\ IsDigits(Tail(s)) -> Fin(-DigitsVal(Tail(s), 0))
      [] OTHER -> [k |-> "err", v |-> 0]

\* str(n) of an integer
RECURSIVE NatStr(_)
NatStr(n) == IF n < 10 THEN <<DigitChars[n + 1]>> ELSE NatStr(n \div 10) \o <<DigitChars[(n % 10) + 1]>>
IntStr(n) == IF n < 0 THEN <<"-">> \o NatStr(-n) ELSE NatStr(n)

\* abs(result) < Float('1e-20000'), as a power of ten
ZeroClampExp == -20000

\* result.evalf(50, maxn=500), the clamp to Float('0'), then str(result).
\* The 50 digits of a finite result are shortened to its leading form.
result_str(val) ==
    CASE val.k = "oo" -> STR_oo
      [] val.k = "nan" -> STR_nan
      [] val.k = "zero" -> <<"0">>
      [] val.k = "lit" ->
            IF val.s = "0.0" THEN <<"0">>
            ELSE IF val.s = "0.5" THEN <<"0", ".", "5">>
            ELSE <<"1", ".", "0">>
      [] val.k = "asym" -> IF val.zero THEN <<"0">> ELSE <<"1", "e", "-", "5", "2", "1">>
      [] OTHER ->
            CASE val.int.c = "nan" -> STR_nan
              [] val.int.c = "zero" -> <<"0">>
              [] OTHER -> IF val.int.e < ZeroClampExp THEN <<"0">>
                          ELSE <<"1", "e">> \o IntStr(val.int.e)

\* f'arg{i}'
ArgName(i) == CASE i = 0 -> "arg0" [] i = 1 -> "arg1" [] OTHER -> "arg2"

\* the entries of the data directory, in os.scandir order
DirEntries ==
    << [name |-> NAME_logisticGaussianDeriv, is_file |-> TRUE],
       [name |-> NAME_ulp, is_file |-> TRUE],
       [name |-> NAME_logisticGaussian, is_file |-> TRUE],
       [name |-> NAME_Custom, is_file |-> TRUE],
       [name |-> NAME_notes, is_file |-> TRUE] >>

\* the condition of the first `if` of the loop body
IsCandidate(s, entry) ==
    /\ endswith(entry.name, STR_csv)
    /\ entry.is_file
    /\ (s = "PythonScripts" => entry.name = NAME_logisticGaussian)

\* not (entry.name not in pair_info.keys() or pair_info[entry.name] == None)
KnowsHow(s, name) ==
    name \in DOMAIN pair_info(s) /\ pair_info(s)[name] # "None"

\* rows written through after this many rows (PythonScripts only)
DebugRowLimit == 5

\* the condition under which the row keeps result_in_file
PassThrough_NoNaN(s, result_in_file, rows) ==
    \/ result_in_file = STR_Infinity
    \/ result_in_file = STR_NegInfinity
    \/ (s = "PythonScripts" /\ Len(rows) > DebugRowLimit)

PassThrough(s, result_in_file, rows) ==
    \/ result_in_file = STR_Infinity
    \/ result_in_file = STR_NegInfinity
    \/ result_in_file = STR_NaN
    \/ (s = "PythonScripts" /\ Len(rows) > DebugRowLimit)


\* rows of the data files: arg0, arg1, expectedresult
Row(a0, a1, er) == [arg0 |-> a0, arg1 |-> a1, expectedresult |-> er]
PlainRow == Row(<<"1">>, <<"1">>, <<"0">>)
RowSet ==
    { PlainRow,
      Row(STR_Infinity, <<"1">>, <<"0">>),
      Row(STR_Infinity, <<"1">>, <<"1">>),
      Row(STR_NegInfinity, <<"1">>, <<"0">>),
      Row(<<"1">>, <<"0">>, <<"0">>),
      Row(STR_Infinity, STR_Infinity, STR_Infinity),
      Row(<<"1">>, <<"1">>, STR_NegInfinity),
      Row(STR_NaN, <<"1">>, STR_NaN) }

\* bound: the number of equal rows between the first and the last row
MaxPad == 6

AtMostOne == {<<>>} \cup {<<r>> : r \in RowSet}
InitRows ==
    { head \o [i \in 1..k |-> PlainRow] \o tail :
        head \in AtMostOne, k \in 0..MaxPad, tail \in AtMostOne }

Header == <<"arg0", "arg1", "expectedresult">>

\* what mpmath.quad does in a run: a result with its error estimate, or ValueError
LibOutcomes ==
    { [exc |-> "none", int |-> MagPow(0), err |-> MagPow(-60)],
      [exc |-> "none", int |-> MagPow(ZeroClampExp - 1), err |-> MagZero],
      [exc |-> "none", int |-> MagNaN, err |-> MagNaN],
      [exc |-> "ValueError", int |-> MagNaN, err |-> MagNaN],
      [exc |-> "ZeroDivisionError", int |-> MagNaN, err |-> MagNaN] }

EvalIdle ==
    /\ efn = "none"
    /\ eargs = <<>>
    /\ eq = [exc |-> "unused", int |-> MagNaN, err |-> MagNaN]
    /\ eres = Ret(V_nan)
    /\ epc = "idle"

Init ==
    /\ script \in Scripts
    /\ lib \in LibOutcomes
    /\ \E rows \in InitRows :
          files = [i \in 1..Len(DirEntries) |-> [fieldnames |-> Header, rows |-> rows]]
    /\ orig = files
    /\ idx = 1
    /\ pc = "scan"
    /\ rowi = 0
    /\ newrows = <<>>
    /\ fieldnames = <<>>
    /\ processing = {}
    /\ skipped = {}
    /\ written = {}
    /\ called = {}
    /\ dps = (IF script = "PythonScripts" THEN WorkDps ELSE DefaultDps)
    /\ dpslog = (IF script = "PythonScripts" THEN {<<"set", WorkDps>>} ELSE {})
    /\ EvalIdle

\* an entry that fails the first `if`: the loop goes to the next entry
ScanIgnore ==
    /\ pc = "scan" /\ idx <= Len(DirEntries)
    /\ ~IsCandidate(script, DirEntries[idx])
    /\ idx' = idx + 1
    /\ UNCHANGED <<script, lib, orig, files, pc, rowi, newrows, fieldnames,
                   processing, skipped, written, called, dps, dpslog, evalVars>>

\* 'Processing ...', "Don't know how to process. Skipping.", continue
ScanSkip ==
    /\ pc = "scan" /\ idx <= Len(DirEntries)
    /\ IsCandidate(script, DirEntries[idx])
    /\ ~KnowsHow(script, DirEntries[idx].name)
    /\ processing' = processing \cup {idx}
    /\ skipped' = skipped \cup {idx}
    /\ idx' = idx + 1
    /\ UNCHANGED <<script, lib, orig, files, pc, rowi, newrows, fieldnames,
                   written, called, dps, dpslog, evalVars>>

\* 'Processing ...', open(entry.path), csv.DictReader, newrows = []
ScanOpen ==
    /\ pc = "scan" /\ idx <= Len(DirEntries)
    /\ IsCandidate(script, DirEntries[idx])
    /\ KnowsHow(script, DirEntries[idx].name)
    /\ processing' = processing \cup {idx}
    /\ fieldnames' = files[idx].fieldnames
    /\ newrows' = <<>>
    /\ rowi' = 1
    /\ pc' = "rows"
    /\ UNCHANGED <<script, lib, orig, files, idx, skipped, written, called, dps, dpslog, evalVars>>

\* except ValueError: result = Float('nan')
OnValueError_Zero == V_zero

OnValueError == V_nan

\* newrow = dict(row); newrow['expectedresult'] = ...
NewRow_PythonArgs(row, er) ==
    [arg0 |-> float_str_csharp_to_python(row.arg0),
     arg1 |-> float_str_csharp_to_python(row.arg1),
     expectedresult |-> er]

NewRow(row, er) == [row EXCEPT !.expectedresult = er]

\* one pass of `for row in reader`
ReadRow ==
    /\ pc = "rows" /\ rowi <= Len(files[idx].rows)
    /\ LET row == files[idx].rows[rowi]
           arg_count == Len(fieldnames) - 1
           args == [i \in 1..arg_count |->
                        Float(float_str_csharp_to_python(row[ArgName(i - 1)]))]
           result_in_file == row.expectedresult
           f == pair_info(script)[DirEntries[idx].name]
           r == Apply(script, f, args, lib)
       IN  /\ IF \E i \in 1..arg_count : args[i].k = "err"
              THEN /\ pc' = "crashed"
                   /\ UNCHANGED <<newrows, rowi, called>>
              ELSE IF PassThrough(script, result_in_file, newrows)
              THEN /\ newrows' = Append(newrows, NewRow(row, result_in_file))
                   /\ rowi' = rowi + 1
                   /\ UNCHANGED <<pc, called>>
              ELSE /\ called' = called \cup {<<idx, rowi>>}
                   /\ IF r.exc = "none"
                      THEN /\ newrows' = Append(newrows,
                                 NewRow(row, float_str_python_to_csharp(result_str(r.val))))
                           /\ rowi' = rowi + 1
                           /\ UNCHANGED pc
                      ELSE IF r.exc = "ValueError"
                      THEN /\ newrows' = Append(newrows,
                                 NewRow(row,
                                     float_str_python_to_csharp(result_str(OnValueError))))
                           /\ rowi' = rowi + 1
                           /\ UNCHANGED pc
                      ELSE /\ pc' = "crashed"
                           /\ UNCHANGED <<newrows, rowi>>
           /\ IF (\E i \in 1..arg_count : args[i].k = "err")
                 \/ PassThrough(script, result_in_file, newrows)
              THEN UNCHANGED <<dps, dpslog>>
              ELSE /\ dps' = DpsAfter(script, f, args, dps)
                   /\ dpslog' = dpslog \cup DpsEvents(script, f, args, dps)
    /\ UNCHANGED <<script, lib, orig, files, idx, fieldnames,
                   processing, skipped, written, evalVars>>

\* the reader is exhausted and closed; open(entry.path, 'w'), writeheader, writerows
WriteFile_Early ==
    /\ pc = "rows"
    /\ files' = [files EXCEPT ![idx] = [fieldnames |-> fieldnames, rows |-> newrows]]
    /\ written' = written \cup {idx}
    /\ idx' = idx + 1
    /\ pc' = "scan"
    /\ UNCHANGED <<script, lib, orig, rowi, newrows, fieldnames,
                   processing, skipped, called, dps, dpslog, evalVars>>

WriteFile ==
    /\ pc = "rows" /\ rowi > Len(files[idx].rows)
    /\ files' = [files EXCEPT ![idx] = [fieldnames |-> fieldnames, rows |-> newrows]]
    /\ written' = written \cup {idx}
    /\ idx' = idx + 1
    /\ pc' = "scan"
    /\ UNCHANGED <<script, lib, orig, rowi, newrows, fieldnames,
                   processing, skipped, called, dps, dpslog, evalVars>>

\* the directory iterator is exhausted
Finish ==
    /\ pc = "scan" /\ idx > Len(DirEntries)
    /\ pc' = "done"
    /\ UNCHANGED <<script, lib, orig, files, idx, rowi, newrows, fieldnames,
                   processing, skipped, written, called, dps, dpslog, evalVars>>

Next == ScanIgnore \/ ScanSkip \/ ScanOpen \/ ReadRow \/ WriteFile \/ Finish

Spec == Init /\ [][Next]_vars


(***************************************************************************)
(* Single evaluations: one call of a registered function on arguments      *)
(* drawn from a grid, with every outcome of the library call               *)
(***************************************************************************)
\* bound: the finite x and y are the multiples of 0.1 up to this many steps
XYSteps == 3

NonFinite == {NegInf, PosInf, NaN}
XYGrid == {Fin(10 * k) : k \in -XYSteps..XYSteps} \cup NonFinite
RGrid ==
    {Fin(-ROne), Fin(1 - ROne), Fin(LN2_R_1), Fin(LN2_R_2), Fin(LN2_R_3),
     Fin(-5000000), Fin(0), Fin(5000000), Fin(ROne)} \cup NonFinite
IRGridX == {Fin(IR_X_1), Fin(IR_X_2), Fin(IR_X_3), Fin(-10), Fin(10)} \cup NonFinite
IRGridY == {Fin(IR_Y_1), Fin(IR_Y_2), Fin(IR_Y_3), Fin(IR_Y_4), Fin(-10), Fin(10)} \cup NonFinite
IRGridR ==
    {Fin(IR_R_1), Fin(IR_R_2), Fin(IR_R_3), Fin(-ROne), Fin(1 - ROne), Fin(0), Fin(ROne), NaN}
MGrid == {Fin(-1200), Fin(-1), Fin(0), Fin(1), Fin(600)} \cup NonFinite
VGrid == {Fin(0), Fin(1), Fin(4)} \cup NonFinite
BetaXGrid == {Fin(-50), Fin(0), Fin(50), Fin(100), Fin(150)} \cup NonFinite
BetaABGrid == {Fin(-1), Fin(0), Fin(1), Fin(2)}

\* the functions of each version of the script
EvalFns(s) ==
    {"mpmath_normal_cdf2", "normal_cdf2", "normal_cdf_ln2", "logistic_gaussian",
     "logistic_gaussian_deriv", "logistic_gaussian_deriv2"}
    \cup (IF s = "PythonScripts"
          THEN {"normal_cdf_integral", "normal_cdf_integral_ratio", "beta_cdf"}
          ELSE {})

EvalArgs(fn) ==
    CASE fn \in {"mpmath_normal_cdf2", "normal_cdf2", "normal_cdf_ln2"} ->
            XYGrid \X XYGrid \X RGrid
      [] fn \in {"normal_cdf_integral", "normal_cdf_integral_ratio"} ->
            IRGridX \X IRGridY \X IRGridR
      [] fn = "beta_cdf" -> BetaXGrid \X BetaABGrid \X BetaABGrid
      [] OTHER -> MGrid \X VGrid

\* what the library call (mpmath.quad, mpmath.betainc) can do
QuadOutcomes ==
    { [exc |-> "none", int |-> i, err |-> e] :
        i \in {MagZero, MagPow(0)},
        e \in {MagZero, MagPow(-ErrFactorExp - 1), MagPow(-ErrFactorExp),
               MagPow(1 - ErrFactorExp)} }
    \cup { [exc |-> "none", int |-> MagNaN, err |-> MagNaN],
           [exc |-> "ValueError", int |-> MagNaN, err |-> MagNaN] }

NoLibCall == [exc |-> "unused", int |-> MagNaN, err |-> MagNaN]

InitEval ==
    /\ script \in Scripts
    /\ efn \in EvalFns(script)
    /\ eargs \in EvalArgs(efn)
    /\ eq = NoLibCall
    /\ eres = Ret(V_nan)
    /\ epc = "ready"
    /\ lib = NoLibCall
    /\ files = <<>>
    /\ orig = <<>>
    /\ idx = 0
    /\ pc = "idle"
    /\ rowi = 0
    /\ newrows = <<>>
    /\ fieldnames = <<>>
    /\ processing = {}
    /\ skipped = {}
    /\ written = {}
    /\ called = {}
    /\ dps = WorkDps
    /\ dpslog = {}

\* the call returns (or raises); eq records the library outcome when one was used
Returns(res, q) ==
    /\ eres' = res
    /\ eq' = IF res.quads > 0 \/ "betainc" \in res.calls THEN q ELSE NoLibCall
    /\ epc' = "returned"
    /\ UNCHANGED <<efn, eargs, batchVars>>

Call_mpmath_normal_cdf2 ==
    /\ epc = "ready" /\ efn = "mpmath_normal_cdf2"
    /\ \E q \in QuadOutcomes :
          Returns(mpmath_normal_cdf2(eargs[1], eargs[2], eargs[3], q), q)

Call_normal_cdf2 ==
    /\ epc = "ready" /\ efn = "normal_cdf2"
    /\ \E q \in QuadOutcomes :
          Returns(normal_cdf2(eargs[1], eargs[2], eargs[3], q), q)

Call_normal_cdf_ln2 ==
    /\ epc = "ready" /\ efn = "normal_cdf_ln2"
    /\ \E q \in QuadOutcomes :
          Returns(normal_cdf_ln2(eargs[1], eargs[2], eargs[3], q), q)

Call_logistic_gaussian ==
    /\ epc = "ready" /\ efn = "logistic_gaussian"
    /\ \E q \in QuadOutcomes :
          Returns(logistic_gaussian(script, eargs[1], eargs[2], q), q)

Call_logistic_gaussian_deriv ==
    /\ epc = "ready" /\ efn = "logistic_gaussian_deriv"
    /\ \E q \in QuadOutcomes :
          Returns(logistic_gaussian_deriv(eargs[1], eargs[2], q), q)

Call_logistic_gaussian_deriv2 ==
    /\ epc = "ready" /\ efn = "logistic_gaussian_deriv2"
    /\ \E q \in QuadOutcomes :
          Returns(logistic_gaussian_deriv2(eargs[1], eargs[2], q), q)

Call_normal_cdf_integral ==
    /\ epc = "ready" /\ efn = "normal_cdf_integral"
    /\ \E q \in QuadOutcomes :
          Returns(normal_cdf_integral(eargs[1], eargs[2], eargs[3], q), q)

Call_normal_cdf_integral_ratio ==
    /\ epc = "ready" /\ efn = "normal_cdf_integral_ratio"
    /\ \E q \in QuadOutcomes :
          Returns(normal_cdf_integral_ratio(eargs[1], eargs[2], eargs[3], q), q)

\* mpmath.betainc is not part of the sources.  The model grants it the most
\* favourable behaviour outside its domain (a <= 0 or b <= 0): it raises or
\* returns nan there.  Whatever beta_cdf then returns for such shape
\* parameters is decided by beta_cdf's own branches alone.
Call_beta_cdf ==
    /\ epc = "ready" /\ efn = "beta_cdf"
    /\ \E q \in QuadOutcomes :
          /\ (NumLe(eargs[2], Fin(0)) \/ NumLe(eargs[3], Fin(0)))
                => (q.exc # "none" \/ q.int.c = "nan")
          /\ Returns(beta_cdf(eargs[1], eargs[2], eargs[3], q), q)

NextEval ==
    \/ Call_mpmath_normal_cdf2
    \/ Call_normal_cdf2
    \/ Call_normal_cdf_ln2
    \/ Call_logistic_gaussian
    \/ Call_logistic_gaussian_deriv
    \/ Call_logistic_gaussian_deriv2
    \/ Call_normal_cdf_integral
    \/ Call_normal_cdf_integral_ratio
    \/ Call_beta_cdf

SpecEval == InitEval /\ [][NextEval]_vars

(***************************************************************************)
(* The string conversions on their own: a cell text is read, or a result   *)
(* text is written                                                         *)
(***************************************************************************)
\* no batch is running
BatchIdle ==
    /\ lib = NoLibCall
    /\ files = <<>>
    /\ orig = <<>>
    /\ idx = 0
    /\ pc = "idle"
    /\ rowi = 0
    /\ newrows = <<>>
    /\ fieldnames = <<>>
    /\ processing = {}
    /\ skipped = {}
    /\ written = {}
    /\ called = {}
    /\ dps = WorkDps
    /\ dpslog = {}

\* bound: the longest text built freely from TextChars
TextLen == 3

TextChars == {"n", "a", "N", "o", "i", "f", "-", "1", "e", "."}
STR_negoo == <<"-">> \o STR_oo
Texts ==
    UNION {[1..n -> TextChars] : n \in 0..TextLen}
    \cup {STR_NaN, STR_nan, STR_Infinity, STR_NegInfinity, STR_inf, STR_neginf,
          STR_oo, STR_negoo,
          <<"I", "N", "F", "I", "N", "I", "T", "Y">>,
          <<"i", "n", "f", "i", "n", "i", "t", "y">>,
          <<"1", ".", "5", "e", "-", "1", "0">>,
          <<"-", "0", ".", "2", "5">>}

InitText ==
    /\ script \in Scripts
    /\ efn = "text"
    /\ eargs \in {<<t>> : t \in Texts}
    /\ eq = NoLibCall
    /\ eres = <<>>
    /\ epc = "cell"
    /\ BatchIdle

\* Float(float_str_csharp_to_python(row[...])): the text of a cell is read
ReadCell ==
    /\ epc = "cell"
    /\ eres' = float_str_csharp_to_python(eargs[1])
    /\ epc' = "read"
    /\ UNCHANGED <<efn, eargs, eq, batchVars>>

\* float_str_python_to_csharp(str(result)): the text of a result is written
WriteResult ==
    /\ epc = "cell"
    /\ eres' = float_str_python_to_csharp(eargs[1])
    /\ epc' = "written"
    /\ UNCHANGED <<efn, eargs, eq, batchVars>>

\* the text that was read is written again
WriteBack ==
    /\ epc = "read"
    /\ eres' = float_str_python_to_csharp(eres)
    /\ epc' = "roundtrip"
    /\ UNCHANGED <<efn, eargs, eq, batchVars>>

NextText == ReadCell \/ WriteResult \/ WriteBack

SpecText == InitText /\ [][NextText]_vars

(***************************************************************************)
(* GenerateSeries.py: the error bound printed above a truncated series.    *)
(* Coefficients are integers: the numerators over a common denominator,    *)
(* which keeps every sign and every zero.                                  *)
(***************************************************************************)
NAME_DigammaAt1 == "2: Digamma at 1"
NAME_DigammaAt2 == "3: Digamma at 2"
NAME_DigammaAsymptotic == "4: Digamma asymptotic"
NAME_TrigammaAt1 == "5: Trigamma at 1"
NAME_TetragammaAt1 == "7: Tetragamma at 1"
NAME_TrigammaAsymptotic == "6: Trigamma asymptotic"
NAME_TetragammaAsymptotic == "8: Tetragamma asymptotic"
NAME_LogExpMinus1Ratio == "15: log(exp(x) - 1) / x"
NAME_Log1Plus == "10: log(1 + x)"

\* the offset print_error_bound takes from the name of the series, if any
NamedOffset(name) ==
    CASE name = NAME_DigammaAt1 -> "S(1e6)"
      [] name = NAME_DigammaAt2 -> "1 + digamma(1)"
      [] name = NAME_DigammaAsymptotic -> "S(1)"
      [] name = NAME_TrigammaAt1 -> "S(1e8)"
      [] name = NAME_TetragammaAt1 -> "S(2e12)"
      [] name = NAME_TrigammaAsymptotic -> "S(1)"
      [] name = NAME_TetragammaAsymptotic -> "S(12**-3)"
      [] name = NAME_LogExpMinus1Ratio -> "S(-log(1e-3))"
      [] OTHER -> "none"

\* sympy's sign and abs on a real number
sign(c) == IF c > 0 THEN 1 ELSE IF c < 0 THEN -1 ELSE 0
abs(c) == IF c < 0 THEN -c ELSE c

\* sign(coefficients[-1]) != sign(coefficients[-2])
is_alternating(coefficients) ==
    sign(coefficients[Len(coefficients)]) # sign(coefficients[Len(coefficients) - 1])

\* the line 'Error is at most <nextc>*<var>**<series_length> when <var> >= 0'
ErrorLine(nextc, series_length) ==
    [text |-> "Error is at most", coef |-> nextc, power |-> series_length]

\* bound = (offset*ulp1/2/nextc)**(1.0/order) and the line
\* 'which is at most Ulp(<offset>[*<var>[*<var>]])/2 when 0 <= <var> <= <bound>'
UlpLine_FullOrder(offset, varpower, nextc, series_length) ==
    [text |-> "which is at most Ulp", offset |-> offset, varpower |-> varpower,
     next |-> nextc, order |-> series_length]

UlpLine(offset, varpower, nextc, series_length) ==
    [text |-> "which is at most Ulp", offset |-> offset, varpower |-> varpower,
     next |-> nextc, order |-> series_length - varpower]

\* print_error_bound: what it prints, and how it ends.  coefficients[i + 1]
\* is Python's coefficients[i].
print_error_bound(name, series_length, coefficients, nextc0) ==
    IF ~is_alternating(coefficients) THEN [lines |-> <<>>, exc |-> "none"]
    ELSE LET nextc == abs(nextc0)
             first == ErrorLine(nextc, series_length)
             named == NamedOffset(name)
         IN  IF named # "none"
             THEN [lines |-> <<first, UlpLine([k |-> "named", v |-> named], 0,
                                              nextc, series_length)>>,
                   exc |-> "none"]
             ELSE IF abs(coefficients[1]) # 0
             THEN [lines |-> <<first, UlpLine([k |-> "abs", v |-> abs(coefficients[1])], 0,
                                              nextc, series_length)>>,
                   exc |-> "none"]
             ELSE IF abs(coefficients[2]) # 0
             THEN [lines |-> <<first, UlpLine([k |-> "abs", v |-> abs(coefficients[2])], 1,
                                              nextc, series_length)>>,
                   exc |-> "none"]
             ELSE IF Len(coefficients) < 3
             THEN [lines |-> <<first>>, exc |-> "IndexError"]
             ELSE IF series_length = 2
             THEN [lines |-> <<first>>, exc |-> "ZeroDivisionError"]
             ELSE [lines |-> <<first, UlpLine([k |-> "abs", v |-> abs(coefficients[3])], 2,
                                              nextc, series_length)>>,
                   exc |-> "none"]

\* bound: the longest series built freely from CoefVals
SeriesLen == 3

CoefVals == {-1, 0, 1}
SeriesNames == {NAME_DigammaAt1, NAME_DigammaAsymptotic, NAME_LogExpMinus1Ratio, NAME_Log1Plus}

\* coefficient(0..4) of log((exp(x) - 1) / x) = x/2 + x**2/24 - x**4/2880 + ...,
\* times 2880; its series length is 4
LogExpMinus1RatioCoefficients == <<0, 1440, 120, 0, -1>>

\* coefficient(0), ..., coefficient(series_length) of a series, the last one
\* not zero
CoefficientLists ==
    {cs \in UNION {[1..(n + 1) -> CoefVals] : n \in 2..SeriesLen} : cs[Len(cs)] # 0}

InitErrorBound ==
    /\ script = "PythonScripts"
    /\ efn = "print_error_bound"
    /\ eargs \in ({<<name, cs>> : name \in SeriesNames, cs \in CoefficientLists}
                  \cup {<<NAME_LogExpMinus1Ratio, LogExpMinus1RatioCoefficients>>})
    /\ eq = NoLibCall
    /\ eres = [lines |-> <<>>, exc |-> "none"]
    /\ epc = "ready"
    /\ BatchIdle

\* main: coefficients = [coefficient(k) for k in range(0, series_length)];
\* print_error_bound(name, ..., series_length, coefficients, coefficient(series_length))
Main_print_error_bound ==
    /\ epc = "ready" /\ efn = "print_error_bound"
    /\ LET series_length == Len(eargs[2]) - 1
           coefficients == SubSeq(eargs[2], 1, series_length)
       IN  eres' = print_error_bound(eargs[1], series_length, coefficients,
                                     eargs[2][series_length + 1])
    /\ epc' = "returned"
    /\ UNCHANGED <<efn, eargs, eq, batchVars>>

\* exact rational numbers n/d in lowest terms, d > 0
RECURSIVE GCD(_, _)
GCD(a, b) == IF b = 0 THEN a ELSE GCD(b, a % b)
Rat(n, d) ==
    IF n = 0 THEN [n |-> 0, d |-> 1]
    ELSE [n |-> n \div GCD(abs(n), d), d |-> d \div GCD(abs(n), d)]
RatAdd(a, b) == Rat(a.n * b.d + b.n * a.d, a.d * b.d)
RatMul(a, b) == Rat(a.n * b.n, a.d * b.d)
RatDivInt(a, k) == Rat(a.n, a.d * k)
RECURSIVE RatSum(_)
RatSum(xs) == IF xs = <<>> THEN Rat(0, 1) ELSE RatAdd(Head(xs), RatSum(Tail(xs)))

\* sum([c[i]*zetas[k-i-1] for i in range(0,k)])/k, for k = len(c)
NextCoefficient_NoDivide(c, zetas) ==
    RatSum([j \in 1..Len(c) |-> RatMul(c[j], zetas[Len(c) - j + 1])])

NextCoefficient(c, zetas) ==
    RatDivInt(RatSum([j \in 1..Len(c) |-> RatMul(c[j], zetas[Len(c) - j + 1])]), Len(c))

\* bound: the largest count of get_reciprocal_factorial_minus_1_coefficients
MaxCount == 3

\* values the precomputed constants are drawn from
ZetaVals == {Rat(-1, 1), Rat(1, 2), Rat(2, 1)}
NAME_get_rfm1 == "get_reciprocal_factorial_minus_1_coefficients"

\* a call get_reciprocal_factorial_minus_1_coefficients(count) about to be
\* made; eargs[2] is the table zetas the call computes first
InitCoefficients ==
    /\ script = "PythonScripts"
    /\ efn = NAME_get_rfm1
    /\ eargs \in UNION {{<<count, zetas>> : zetas \in [1..count -> ZetaVals]} :
                           count \in 0..MaxCount}
    /\ eq = NoLibCall
    /\ eres = [c |-> <<>>, out |-> <<>>]
    /\ epc = "ready"
    /\ BatchIdle

\* c = [1]; zetas = [...]
RF_Start ==
    /\ epc = "ready" /\ efn = NAME_get_rfm1
    /\ eres' = [c |-> <<Rat(1, 1)>>, out |-> <<>>]
    /\ epc' = "loop"
    /\ UNCHANGED <<efn, eargs, eq, batchVars>>

\* one pass of `for k in range(1,count)`
RF_Append ==
    /\ epc = "loop" /\ efn = NAME_get_rfm1
    /\ Len(eres.c) < eargs[1]
    /\ eres' = [eres EXCEPT !.c = Append(@, NextCoefficient(eres.c, eargs[2]))]
    /\ UNCHANGED <<efn, eargs, eq, epc, batchVars>>

\* return [S(0 if k==0 else c[k]) for k in range(0,count)]
RF_Return ==
    /\ epc = "loop" /\ efn = NAME_get_rfm1
    /\ Len(eres.c) >= eargs[1]
    /\ eres' = [eres EXCEPT !.out =
                    [k \in 1..eargs[1] |-> IF k = 1 THEN Rat(0, 1) ELSE eres.c[k]]]
    /\ epc' = "returned"
    /\ UNCHANGED <<efn, eargs, eq, batchVars>>

NextSeries == Main_print_error_bound \/ RF_Start \/ RF_Append \/ RF_Return

InitSeries == InitErrorBound \/ InitCoefficients

SpecSeries == InitSeries /\ [][NextSeries]_vars
(***************************************************************************)
(* CheckMathLibraries.py.  A finite double is sign * (hi * 10^7 + lo) in    *)
(* units of 1e-14, so that 1.0 is hi = 10^7 and a relative error of 1e-13   *)
(* at 1.0 is a difference of 10 units.                                     *)
(***************************************************************************)
NAME_Erfc == <<"E", "r", "f", "c", ".", "c", "s", "v">>
NAME_NormalCdf == <<"N", "o", "r", "m", "a", "l", "C", "d", "f", ".", "c", "s", "v">>

LimbDigits == 7
\* err > 1e-13
RelTolExp == 13
RECURSIVE Pow10(_)
Pow10(n) == IF n = 0 THEN 1 ELSE 10 * Pow10(n - 1)
LimbBase == Pow10(LimbDigits)

DFin(sg, hi, lo) == [k |-> "fin", s |-> IF hi = 0 /\ lo = 0 THEN 1 ELSE sg, hi |-> hi, lo |-> lo]
DInf(sg) == [k |-> "inf", s |-> sg, hi |-> 0, lo |-> 0]
DNaN == [k |-> "nan", s |-> 1, hi |-> 0, lo |-> 0]
DZero == DFin(1, 0, 0)
DOne == DFin(1, LimbBase, 0)

\* magnitudes <<hi, lo>>: order, difference and sum
MagLess(a, b) == a[1] < b[1] \/ (a[1] = b[1] /\ a[2] < b[2])
MagSub(a, b) ==
    IF a[2] >= b[2] THEN <<a[1] - b[1], a[2] - b[2]>>
    ELSE <<a[1] - b[1] - 1, a[2] + LimbBase - b[2]>>
MagAdd(a, b) ==
    IF a[2] + b[2] < LimbBase THEN <<a[1] + b[1], a[2] + b[2]>>
    ELSE <<a[1] + b[1] + 1, a[2] + b[2] - LimbBase>>
\* abs(result - result_in_file) of two finite doubles
AbsDiff(r, e) ==
    IF r.s # e.s THEN MagAdd(<<r.hi, r.lo>>, <<e.hi, e.lo>>)
    ELSE IF MagLess(<<r.hi, r.lo>>, <<e.hi, e.lo>>)
    THEN MagSub(<<e.hi, e.lo>>, <<r.hi, r.lo>>)
    ELSE MagSub(<<r.hi, r.lo>>, <<e.hi, e.lo>>)

\* the three branches that compute err
ErrZero == [k |-> "zero"]
ErrNaN == [k |-> "nan"]
ErrInf == [k |-> "inf"]
RelErr_NoNaNRule(result, result_in_file) ==
    IF result.k # "nan" /\ result_in_file.k # "nan" /\ result = result_in_file
    THEN ErrZero
    ELSE IF result.k = "nan" \/ result_in_file.k = "nan" THEN ErrNaN
    ELSE IF result_in_file.k = "inf" THEN ErrNaN
    ELSE IF result.k = "inf" THEN ErrInf
    ELSE [k |-> "ratio", num |-> AbsDiff(result, result_in_file),
          den |-> <<result_in_file.hi, result_in_file.lo>>]

RelErr(result, result_in_file) ==
    IF result.k = "nan" /\ result_in_file.k = "nan" THEN ErrZero
    ELSE IF result.k # "nan" /\ result_in_file.k # "nan" /\ result = result_in_file
    THEN ErrZero
    ELSE IF result.k = "nan" \/ result_in_file.k = "nan" THEN ErrNaN
    ELSE IF result_in_file.k = "inf" THEN ErrNaN
    ELSE IF result.k = "inf" THEN ErrInf
    ELSE [k |-> "ratio", num |-> AbsDiff(result, result_in_file),
          den |-> <<result_in_file.hi, result_in_file.lo>>]

\* num / (den + 1e-100) > 1e-13, that is num * 10^13 > den: the 1e-100 only
\* decides when den is 0, where every num > 0 of this grid exceeds it
RatioExceeds(num, den) ==
    IF num[1] > 0 THEN TRUE
    ELSE IF num[2] > 2000 THEN TRUE
    ELSE num[2] * Pow10(RelTolExp - LimbDigits) > den[1]

\* err > 1e-13 or math.isnan(err)
Wrong(err) ==
    CASE err.k = "zero" -> FALSE
      [] err.k = "nan" -> TRUE
      [] err.k = "inf" -> TRUE
      [] OTHER -> RatioExceeds(err.num, err.den)

LibNames == <<"math", "scipy", "mpmath">>
\* pair_infos, for the entry names of the modelled directory
pair_infos(libname) ==
    CASE libname = "math" -> {NAME_Erfc}
      [] libname = "scipy" -> {NAME_Erfc, NAME_BetaCdf}
      [] OTHER -> {NAME_Erfc, NAME_BetaCdf, NAME_NormalCdf}

\* bound: the number of rows of a checked file
MaxLibRows == 2

LibEntryNames == {NAME_Erfc, NAME_BetaCdf, NAME_NormalCdf, NAME_Custom, NAME_notes}
ExpectedVals == {DNaN, DInf(1), DZero, DOne}
\* what f(*args) returns; "raise" stands for any exception
LibResults ==
    {DNaN, DInf(1), DInf(-1), DZero, DOne, DFin(1, LimbBase, 5), DFin(1, LimbBase, 10),
     DFin(1, LimbBase, 11), DFin(-1, LimbBase, 0)}
NoCheck == [lib |-> "none", row |-> 0, result |-> DNaN, raised |-> FALSE, printed |-> FALSE]

InitLibs ==
    /\ script = "PythonScripts"
    /\ efn = "CheckMathLibraries"
    /\ eargs \in {<<name, rows>> :
                    name \in LibEntryNames,
                    rows \in UNION {[1..n -> ExpectedVals] : n \in 0..MaxLibRows}}
    /\ eq = NoLibCall
    /\ eres = [lib |-> 0, row |-> 0, entered |-> {}, last |-> NoCheck]
    /\ epc = "entry"
    /\ BatchIdle

\* the entry fails `entry.name.endswith('.csv') and entry.is_file()`
CL_Ignore ==
    /\ epc = "entry" /\ efn = "CheckMathLibraries"
    /\ ~endswith(eargs[1], STR_csv)
    /\ epc' = "done"
    /\ UNCHANGED <<efn, eargs, eq, eres, batchVars>>

\* 'Processing ...'; rows = readrows(entry.path)
CL_Read ==
    /\ epc = "entry" /\ efn = "CheckMathLibraries"
    /\ endswith(eargs[1], STR_csv)
    /\ eres' = [eres EXCEPT !.lib = 1]
    /\ epc' = "libs"
    /\ UNCHANGED <<efn, eargs, eq, batchVars>>

\* the library has no entry for the file: continue
CL_SkipLib ==
    /\ epc = "libs" /\ efn = "CheckMathLibraries"
    /\ eres.lib <= Len(LibNames)
    /\ eargs[1] \notin pair_infos(LibNames[eres.lib])
    /\ eres' = [eres EXCEPT !.lib = @ + 1]
    /\ UNCHANGED <<efn, eargs, eq, epc, batchVars>>

\* f = pair_info[entry.name]
CL_EnterLib ==
    /\ epc = "libs" /\ efn = "CheckMathLibraries"
    /\ eres.lib <= Len(LibNames)
    /\ eargs[1] \in pair_infos(LibNames[eres.lib])
    /\ eres' = [eres EXCEPT !.row = 1, !.entered = @ \cup {LibNames[eres.lib]}]
    /\ epc' = "rows"
    /\ UNCHANGED <<efn, eargs, eq, batchVars>>

\* one pass of `for row in rows`: f(*args) returns a double or raises
CL_CheckRow ==
    /\ epc = "rows" /\ efn = "CheckMathLibraries"
    /\ eres.row <= Len(eargs[2])
    /\ \E raised \in BOOLEAN, returned \in LibResults :
          LET result == IF raised THEN DNaN ELSE returned
              err == RelErr(result, eargs[2][eres.row])
          IN  eres' = [eres EXCEPT !.row = @ + 1,
                          !.last = [lib |-> LibNames[eres.lib], row |-> eres.row,
                                    result |-> result, raised |-> raised,
                                    printed |-> Wrong(err)]]
    /\ UNCHANGED <<efn, eargs, eq, epc, batchVars>>

\* the rows are exhausted: the next library
CL_NextLib ==
    /\ epc = "rows" /\ efn = "CheckMathLibraries"
    /\ eres.row > Len(eargs[2])
    /\ eres' = [eres EXCEPT !.lib = @ + 1]
    /\ epc' = "libs"
    /\ UNCHANGED <<efn, eargs, eq, batchVars>>

\* the libraries are exhausted
CL_Done ==
    /\ epc = "libs" /\ efn = "CheckMathLibraries"
    /\ eres.lib > Len(LibNames)
    /\ epc' = "done"
    /\ UNCHANGED <<efn, eargs, eq, eres, batchVars>>

NextLibs ==
    CL_Ignore \/ CL_Read \/ CL_SkipLib \/ CL_EnterLib \/ CL_CheckRow \/ CL_NextLib \/ CL_Done

SpecLibs == InitLibs /\ [][NextLibs]_vars

(***************************************************************************)
(* test_tutorials.py: SampleMotifData.  Rand.Double, Rand.Int and the       *)
(* Sample methods are calls into the runtime; their outcomes are chosen in  *)
(* the action.                                                             *)
(***************************************************************************)
\* range(n): empty when n <= 0
Range(n) == 1..n

\* Rand.Int(maxPlus1): an integer in 0..maxPlus1-1; a bound of 0 yields 0 or
\* is rejected, a negative bound is rejected ("raise")
Rand_Int(maxPlus1) ==
    IF maxPlus1 > 0 THEN {[raise |-> FALSE, v |-> n] : n \in 0..(maxPlus1 - 1)}
    ELSE IF maxPlus1 = 0 THEN {[raise |-> FALSE, v |-> 0], [raise |-> TRUE, v |-> 0]}
    ELSE {[raise |-> TRUE, v |-> 0]}

BackgroundChars == {"A", "T"}
MotifChars == {"C"}

\* the length of backgroundAfterChars
AfterCount_NoMotif(sequenceLength, motifLength, pos) == sequenceLength - pos

AfterCount(sequenceLength, motifLength, pos) == sequenceLength - motifLength - pos

\* bounds: sequenceCount, sequenceLength, len(motif)
MaxSequenceCount == 2
MaxSequenceLength == 3
MaxMotifLength == 2

InitMotif ==
    /\ script = "PythonScripts"
    /\ efn = "SampleMotifData"
    /\ eargs \in (0..MaxSequenceCount) \X (0..MaxSequenceLength) \X (0..MaxMotifLength)
    /\ eq = NoLibCall
    \* sequenceData, motifPositionData = [None] * sequenceCount, ...
    /\ eres = [i |-> 0,
               sequenceData |-> [k \in 1..eargs[1] |-> "None"],
               motifPositionData |-> [k \in 1..eargs[1] |-> "None"],
               parts |-> [k \in 1..eargs[1] |-> <<>>],
               exc |-> "none"]
    /\ epc = "loop"
    /\ BatchIdle

\* Rand.Double() < motifPresenceProbability: the sequence holds the motif
SM_Motif ==
    /\ epc = "loop" /\ efn = "SampleMotifData"
    /\ eres.i < eargs[1]
    /\ \E drawn \in Rand_Int(eargs[2] - eargs[3] + 1) :
          IF drawn.raise
          THEN /\ eres' = [eres EXCEPT !.exc = "ArgumentOutOfRangeException"]
               /\ epc' = "raised"
          ELSE LET pos == drawn.v IN
               \E backgroundBeforeChars \in [Range(pos) -> BackgroundChars],
                  backgroundAfterChars \in
                      [Range(AfterCount(eargs[2], eargs[3], pos)) -> BackgroundChars],
                  sampledMotifChars \in [Range(eargs[3]) -> MotifChars] :
                  /\ eres' = [eres EXCEPT
                        !.i = @ + 1,
                        !.motifPositionData[eres.i + 1] = pos,
                        !.sequenceData[eres.i + 1] =
                            backgroundBeforeChars \o sampledMotifChars \o backgroundAfterChars,
                        !.parts[eres.i + 1] =
                            <<Len(backgroundBeforeChars), Len(sampledMotifChars),
                              Len(backgroundAfterChars)>>]
                  /\ epc' = epc
    /\ UNCHANGED <<efn, eargs, eq, batchVars>>

\* the else branch: pure background
SM_Background ==
    /\ epc = "loop" /\ efn = "SampleMotifData"
    /\ eres.i < eargs[1]
    /\ \E background \in [Range(eargs[2]) -> BackgroundChars] :
          eres' = [eres EXCEPT !.i = @ + 1,
                               !.motifPositionData[eres.i + 1] = -1,
                               !.sequenceData[eres.i + 1] = background,
                               !.parts[eres.i + 1] = <<Len(background)>>]
    /\ UNCHANGED <<efn, eargs, eq, epc, batchVars>>

\* return sequenceData, motifPositionData
SM_Return ==
    /\ epc = "loop" /\ efn = "SampleMotifData"
    /\ eres.i >= eargs[1]
    /\ epc' = "returned"
    /\ UNCHANGED <<efn, eargs, eq, eres, batchVars>>

NextMotif == SM_Motif \/ SM_Background \/ SM_Return

SpecMotif == InitMotif /\ [][NextMotif]_vars

(***************************************************************************)
(* GenerateSeries.py: normcdfln_asymptotic_coefficient.  The result is     *)
(* kept as the list of its terms [sign, n, accSum], each standing for      *)
(* sign * accSum / n.                                                      *)
(***************************************************************************)
RECURSIVE factorial2(_)
factorial2(n) == IF n <= 1 THEN 1 ELSE n * factorial2(n - 2)

\* the first idx >= 1 (0-based) with v[idx] # 0, or len(v)
RECURSIVE FirstNonZero(_, _)
FirstNonZero(v, ix) ==
    IF ix < Len(v) /\ v[ix + 1] = 0 THEN FirstNonZero(v, ix + 1) ELSE ix

next_deltas_NoReset(v) ==
    LET ix == FirstNonZero(v, 1)
    IN  IF ix = Len(v) THEN [ok |-> FALSE, v |-> v]
        ELSE LET v0 == v[1]
                 v2 == [v EXCEPT ![ix + 1] = @ - 1]
                 v3 == [v2 EXCEPT ![ix] = v0 + 1]
             IN  [ok |-> TRUE, v |-> v3]

\* next(v), 0-based idx; the returned flag and the list as left in place
next_deltas(v) ==
    LET ix == FirstNonZero(v, 1)
    IN  IF ix = Len(v) THEN [ok |-> FALSE, v |-> v]
        ELSE LET v0 == v[1]
                 v1 == [v EXCEPT ![1] = 0]
                 v2 == [v1 EXCEPT ![ix + 1] = @ - 1]
                 v3 == [v2 EXCEPT ![ix] = v0 + 1]
             IN  [ok |-> TRUE, v |-> v3]

RECURSIVE accProd(_)
accProd(deltas) ==
    IF deltas = <<>> THEN 1
    ELSE factorial2(2 * (Head(deltas) + 1) - 1) * accProd(Tail(deltas))

\* (-1)**k
MinusOnePow(k) == IF k % 2 = 0 THEN 1 ELSE -1

\* bound: the index m of the coefficient
MaxM == 7

InitAsymptotic ==
    /\ script = "PythonScripts"
    /\ efn = "normcdfln_asymptotic_coefficient"
    /\ eargs \in {<<m>> : m \in 0..MaxM}
    /\ eq = NoLibCall
    /\ eres = [n |-> 1, deltas |-> <<>>, accSum |-> 0, visited |-> <<>>, result |-> <<>>]
    /\ epc = "entry"
    /\ BatchIdle

\* if m == 0: return S(0)
NC_Zero ==
    /\ epc = "entry" /\ efn = "normcdfln_asymptotic_coefficient"
    /\ eargs[1] = 0
    /\ epc' = "returned"
    /\ UNCHANGED <<efn, eargs, eq, eres, batchVars>>

\* result = S((-1)**(2 + m)) * factorial2(2 * m - 1)
NC_First ==
    /\ epc = "entry" /\ efn = "normcdfln_asymptotic_coefficient"
    /\ eargs[1] # 0
    /\ eres' = [eres EXCEPT !.result = <<[sign |-> MinusOnePow(2 + eargs[1]), n |-> 1,
                                          accSum |-> factorial2(2 * eargs[1] - 1)]>>]
    /\ epc' = "for"
    /\ UNCHANGED <<efn, eargs, eq, batchVars>>

\* the next n of range(2, m+1): deltas = [0, ..., 0, m - n]; accSum = S(0)
NC_StartN ==
    /\ epc = "for" /\ efn = "normcdfln_asymptotic_coefficient"
    /\ eres.n + 1 <= eargs[1]
    /\ LET n == eres.n + 1
       IN  eres' = [eres EXCEPT !.n = n,
                       !.deltas = [k \in 1..n |-> IF k = n THEN eargs[1] - n ELSE 0],
                       !.accSum = 0,
                       !.visited = <<>>]
    /\ epc' = "while"
    /\ UNCHANGED <<efn, eargs, eq, batchVars>>

\* one pass of `while True` for which next(deltas) is true
NC_Step ==
    /\ epc = "while" /\ efn = "normcdfln_asymptotic_coefficient"
    /\ next_deltas(eres.deltas).ok
    /\ eres' = [eres EXCEPT !.accSum = @ + accProd(eres.deltas),
                            !.visited = Append(@, eres.deltas),
                            !.deltas = next_deltas(eres.deltas).v]
    /\ UNCHANGED <<efn, eargs, eq, epc, batchVars>>

\* the last pass: next(deltas) is false, break; result = result + coef * accSum
NC_Break ==
    /\ epc = "while" /\ efn = "normcdfln_asymptotic_coefficient"
    /\ ~next_deltas(eres.deltas).ok
    /\ LET acc == eres.accSum + accProd(eres.deltas)
       IN  eres' = [eres EXCEPT !.accSum = acc,
                       !.visited = Append(@, eres.deltas),
                       !.deltas = next_deltas(eres.deltas).v,
                       !.result = Append(@, [sign |-> MinusOnePow(eres.n + 1 + eargs[1]),
                                             n |-> eres.n, accSum |-> acc])]
    /\ epc' = "for"
    /\ UNCHANGED <<efn, eargs, eq, batchVars>>

\* range(2, m+1) is exhausted: return result
NC_Return ==
    /\ epc = "for" /\ efn = "normcdfln_asymptotic_coefficient"
    /\ eres.n + 1 > eargs[1]
    /\ epc' = "returned"
    /\ UNCHANGED <<efn, eargs, eq, eres, batchVars>>

NextAsymptotic == NC_Zero \/ NC_First \/ NC_StartN \/ NC_Step \/ NC_Break \/ NC_Return

SpecAsymptotic == InitAsymptotic /\ [][NextAsymptotic]_vars /\ WF_vars(NextAsymptotic)

(***************************************************************************)
(* GenerateSeries.py: the polynomial printers.  The printed text is the    *)
(* sequence of its tokens; indentation and line breaks are left out.       *)
(***************************************************************************)
Tok(t) == [t |-> t, v |-> Rat(0, 1)]
Num(v) == [t |-> "num", v |-> v]

\* format(float(coefficient.evalf(...)), '.17g'): one literal
format_real_coefficient(coefficient) == <<Num(coefficient)>>

\* str(coefficient).replace("/", ".0 / ") + ".0": 'n.0' or 'n.0 / d.0'
format_rational_coefficient(coefficient) ==
    IF coefficient.d = 1 THEN <<Num(coefficient)>>
    ELSE <<Num(Rat(coefficient.n, 1)), Tok("/"), Num(Rat(coefficient.d, 1))>>

\* coefficients[i] for a Python index i, negative indices counting from the end
PyIndex(coefficients, i) ==
    IF i >= 0 THEN coefficients[i + 1] ELSE coefficients[Len(coefficients) + i + 1]

\* while coefficients[last_non_zero_idx] == 0: last_non_zero_idx -= 1
\* a value below -len(coefficients) stands for the IndexError of the lookup
RECURSIVE LastNonZeroIdx(_, _)
LastNonZeroIdx(coefficients, i) ==
    IF i < -Len(coefficients) THEN i
    ELSE IF PyIndex(coefficients, i).n = 0 THEN LastNonZeroIdx(coefficients, i - 1)
    ELSE i

Format(kind, coefficient) ==
    IF kind = "real" THEN format_real_coefficient(coefficient)
    ELSE format_rational_coefficient(coefficient)

RECURSIVE Closing(_)
Closing(parentheses) == IF parentheses <= 0 THEN <<>> ELSE <<Tok(")")>> \o Closing(parentheses - 1)

\* while idx < last_non_zero_idx: ...
RECURSIVE OpenLoop(_, _, _, _)
OpenLoop(kind, coefficients, i, last) ==
    IF i < last
    THEN LET rest == OpenLoop(kind, coefficients, i + 1, last)
         IN  IF PyIndex(coefficients, i).n # 0
             THEN [out |-> <<Tok("x"), Tok("*"), Tok("(")>> \o Format(kind, PyIndex(coefficients, i))
                              \o <<Tok("+")>> \o rest.out,
                   parentheses |-> rest.parentheses + 1]
             ELSE [out |-> <<Tok("x"), Tok("*")>> \o rest.out, parentheses |-> rest.parentheses]
    ELSE [out |-> <<>>, parentheses |-> 0]

\* print_polynomial_with_real_coefficients, printPolyFromNumbers (kind "real")
\* and printPolyFromRationals (kind "rational"): the last coefficient is
\* printed after the loop
PrintLastOutside(kind, coefficients) ==
    IF Len(coefficients) = 0 THEN [out |-> <<>>, exc |-> "IndexError"]
    ELSE IF Len(coefficients) <= 1
    THEN [out |-> Format(kind, coefficients[1]), exc |-> "none"]
    ELSE LET first == IF coefficients[1].n # 0
                      THEN Format(kind, coefficients[1]) \o <<Tok("+")>> ELSE <<>>
             last == LastNonZeroIdx(coefficients, Len(coefficients) - 1)
             loop == OpenLoop(kind, coefficients, 1, last)
         IN  IF last < -Len(coefficients) THEN [out |-> first, exc |-> "IndexError"]
             ELSE [out |-> first \o loop.out \o <<Tok("x"), Tok("*")>>
                               \o Format(kind, PyIndex(coefficients, last))
                               \o Closing(loop.parentheses),
                   exc |-> "none"]

print_polynomial_with_real_coefficients(coefficients) == PrintLastOutside("real", coefficients)

printPolyFromRationals(coefficients) == PrintLastOutside("rational", coefficients)

\* while idx <= last_non_zero_idx: ... with suffix ' +' when idx < last_non_zero_idx
RECURSIVE ClosedLoop(_, _, _)
ClosedLoop(coefficients, i, last) ==
    IF i <= last
    THEN LET rest == ClosedLoop(coefficients, i + 1, last)
             suffix == IF i < last THEN <<Tok("+")>> ELSE <<>>
         IN  IF PyIndex(coefficients, i).n # 0
             THEN [out |-> <<Tok("x"), Tok("*"), Tok("(")>>
                              \o format_rational_coefficient(PyIndex(coefficients, i))
                              \o suffix \o rest.out,
                   parentheses |-> rest.parentheses + 1]
             ELSE [out |-> <<Tok("x"), Tok("*")>> \o rest.out, parentheses |-> rest.parentheses]
    ELSE [out |-> <<>>, parentheses |-> 0]

print_polynomial_with_rational_coefficients(coefficients) ==
    IF Len(coefficients) = 0 THEN [out |-> <<>>, exc |-> "IndexError"]
    ELSE IF Len(coefficients) <= 1
    THEN [out |-> format_rational_coefficient(coefficients[1]), exc |-> "none"]
    ELSE LET first == IF coefficients[1].n # 0
                      THEN format_rational_coefficient(coefficients[1]) \o <<Tok("+")>>
                      ELSE <<>>
             last == LastNonZeroIdx(coefficients, Len(coefficients) - 1)
             loop == ClosedLoop(coefficients, 1, last)
         IN  IF last < -Len(coefficients) THEN [out |-> first, exc |-> "IndexError"]
             ELSE [out |-> first \o loop.out \o Closing(loop.parentheses), exc |-> "none"]

\* bound: the length of a coefficient list
MaxPolyLen == 4

PolyCoefs == {Rat(0, 1), Rat(1, 1), Rat(-1, 2)}
Printers ==
    {"print_polynomial_with_real_coefficients", "printPolyFromRationals",
     "print_polynomial_with_rational_coefficients"}

InitPoly ==
    /\ script = "PythonScripts"
    /\ efn \in Printers
    /\ eargs \in {<<c>> : c \in UNION {[1..n -> PolyCoefs] : n \in 1..MaxPolyLen}}
    /\ eq = NoLibCall
    /\ eres = [out |-> <<>>, exc |-> "none"]
    /\ epc = "entry"
    /\ BatchIdle

PP_Real ==
    /\ epc = "entry" /\ efn = "print_polynomial_with_real_coefficients"
    /\ eres' = print_polynomial_with_real_coefficients(eargs[1])
    /\ epc' = "returned"
    /\ UNCHANGED <<efn, eargs, eq, batchVars>>

PP_OldRational ==
    /\ epc = "entry" /\ efn = "printPolyFromRationals"
    /\ eres' = printPolyFromRationals(eargs[1])
    /\ epc' = "returned"
    /\ UNCHANGED <<efn, eargs, eq, batchVars>>

PP_Rational ==
    /\ epc = "entry" /\ efn = "print_polynomial_with_rational_coefficients"
    /\ eres' = print_polynomial_with_rational_coefficients(eargs[1])
    /\ epc' = "returned"
    /\ UNCHANGED <<efn, eargs, eq, batchVars>>

NextPoly == PP_Real \/ PP_OldRational \/ PP_Rational

SpecPoly == InitPoly /\ [][NextPoly]_vars

(***************************************************************************)
(* Properties                                                              *)
(***************************************************************************)
Sentinels == {STR_Infinity, STR_NegInfinity, STR_NaN}
IsCsvFile(i) == endswith(DirEntries[i].name, STR_csv) /\ DirEntries[i].is_file
Mapped(i) ==
    /\ DirEntries[i].name \in DOMAIN pair_info(script)
    /\ pair_info(script)[DirEntries[i].name] # "None"

\* C1: when the run has finished, every .csv file of the directory that maps
\* to a function in pair_info was rewritten, and the function was called for
\* every one of its rows except those whose expectedresult is 'Infinity',
\* '-Infinity' or 'NaN'; neither the file's name nor the row's position
\* exempts it.
C1_EveryMappedFileRecomputed ==
    pc = "done" =>
        \A i \in 1..Len(DirEntries) :
            (IsCsvFile(i) /\ Mapped(i)) =>
                /\ i \in written
                /\ \A j \in 1..Len(orig[i].rows) :
                      orig[i].rows[j].expectedresult \notin Sentinels
                          => <<i, j>> \in called

\* C2: the function is never called for a row whose expectedresult is
\* 'Infinity', '-Infinity' or 'NaN', and the row read from such a row, and
\* the row written for it, carry the identical expectedresult string.
C2_SentinelRowsBypass ==
    /\ \A c \in called : orig[c[1]].rows[c[2]].expectedresult \notin Sentinels
    /\ pc = "rows" =>
          \A j \in 1..Len(newrows) :
              orig[idx].rows[j].expectedresult \in Sentinels
                  => newrows[j].expectedresult = orig[idx].rows[j].expectedresult
    /\ \A i \in written :
          /\ Len(files[i].rows) = Len(orig[i].rows)
          /\ \A j \in 1..Len(orig[i].rows) :
                orig[i].rows[j].expectedresult \in Sentinels
                    => files[i].rows[j].expectedresult = orig[i].rows[j].expectedresult

\* a file with a sentinel row and a row that was evaluated has been rewritten
C2_Witness ==
    \E i \in written :
        /\ \E j \in 1..Len(orig[i].rows) : orig[i].rows[j].expectedresult = STR_NaN
        /\ \E j \in 1..Len(orig[i].rows) : <<i, j>> \in called

\* C6: when the run has finished, every .csv file whose name is absent from
\* pair_info or mapped to None was reported as skipped, was never opened for
\* writing, and has its contents unchanged.
C6_UnmappedReportedAndUntouched ==
    pc = "done" =>
        \A i \in 1..Len(DirEntries) :
            (IsCsvFile(i) /\ ~Mapped(i)) =>
                /\ i \in skipped
                /\ i \notin written
                /\ files[i] = orig[i]

\* C7: the expectedresult written for a row depends only on the row's own
\* cells, not on its position: two equal rows of a file are written equal.
C7_RowsIndependentOfPosition ==
    \A i \in written :
        \A j1, j2 \in 1..Len(orig[i].rows) :
            orig[i].rows[j1] = orig[i].rows[j2]
                => files[i].rows[j1].expectedresult = files[i].rows[j2].expectedresult

Returned == epc = "returned"
QuadFns ==
    {"mpmath_normal_cdf2", "normal_cdf2", "normal_cdf_ln2", "logistic_gaussian",
     "logistic_gaussian_deriv", "logistic_gaussian_deriv2"}
SomeArgNonFinite == \E i \in 1..Len(eargs) : ~IsFinite(eargs[i])

\* 1e50 * |err| > |integral|, on the magnitudes the quadrature returned
ErrorTooBig(q) ==
    /\ q.err.c = "pow"
    /\ \/ q.int.c = "zero"
       \/ (q.int.c = "pow" /\ q.int.e - q.err.e < ErrFactorExp)

RECURSIVE IntegralOf(_)
IntegralOf(v) ==
    CASE v.k = "quad" -> v.int
      [] v.k = "ln" -> IntegralOf(v.a)
      [] v.k = "max0" -> IntegralOf(v.a.b)
      [] v.k = "add" -> IntegralOf(v.a)
      [] OTHER -> MagNaN

\* C5: in every quadrature-based evaluator the diagnostic is printed if and
\* only if 1e50 * |err| > |integral|, and printed or not the call returns
\* (it does not raise) the result computed from that integral.
C5_WarningNeverBlocksResult ==
    (Returned /\ efn \in QuadFns /\ eres.quads >= 1 /\ eq.exc = "none") =>
        /\ (eres.printed >= 1) <=> ErrorTooBig(eq)
        /\ eres.exc = "none"
        /\ IntegralOf(eres.val) = eq.int

\* the diagnostic was printed and the result returned
C5_Witness ==
    /\ Returned /\ efn = "logistic_gaussian_deriv"
    /\ eres.printed = 1 /\ eres.exc = "none"
    /\ eres.val.k = "quad" /\ eres.val.int = MagZero

\* C8: beta_cdf with a non-positive shape parameter a or b, for any x,
\* raises an error or yields NaN.
C8_OutOfDomainSignalled ==
    (/\ Returned /\ efn = "beta_cdf"
     /\ (NumLe(eargs[2], Fin(0)) \/ NumLe(eargs[3], Fin(0))))
        => (eres.exc # "none" \/ eres.val.k = "nan")

\* the literal override tables: argument triple, literal
LN2Table ==
    { <<<<Fin(LN2_XY_A), Fin(LN2_XY_A), Fin(LN2_R_1)>>,
        "-90020.4997847132695760821045836463571450496491084868602301611">>,
      <<<<Fin(LN2_XY_B), Fin(LN2_XY_B), Fin(LN2_R_1)>>,
        "-10018.3026957438325237319456255040365689256268122985682785824">>,
      <<<<Fin(LN2_XY_B), Fin(LN2_XY_B), Fin(LN2_R_2)>>,
        "-1014.85016355878529115329386335426754801497185281882358946348">>,
      <<<<Fin(LN2_XY_B), Fin(LN2_XY_B), Fin(LN2_R_3)>>,
        "-111.409512020775362450645082754211442935050576861888726532">> }
IRTable ==
    { <<<<Fin(IR_X_1), Fin(IR_Y_1), Fin(IR_R_1)>>,
        "0.000025600004960154713498351213672772546931354593117186546685502492546785021612">>,
      <<<<Fin(IR_X_2), Fin(IR_Y_2), Fin(IR_R_2)>>, "6.9859450855259114E-08">>,
      <<<<Fin(IR_X_3), Fin(IR_Y_3), Fin(IR_R_3)>>, "1.0293108592794333E-10">>,
      <<<<Fin(IR_X_3), Fin(IR_Y_4), Fin(IR_R_3)>>, "1.0293107755790882E-13">> }

\* C9: for an argument triple of the override table the listed literal is
\* returned and neither mpmath_normal_cdf2 nor normal_cdf_integral (nor the
\* quadrature) is invoked; for every other triple the general computation
\* is invoked.
C9_LiteralOverrides ==
    (Returned /\ efn \in {"normal_cdf_ln2", "normal_cdf_integral_ratio"}) =>
        LET tab == IF efn = "normal_cdf_ln2" THEN LN2Table ELSE IRTable
            hit == {e \in tab : e[1] = eargs}
        IN  IF hit # {}
            THEN \A e \in hit : eres = Ret(Lit(e[2]))
            ELSE IF efn = "normal_cdf_ln2"
                 THEN "mpmath_normal_cdf2" \in eres.calls
                 ELSE "normal_cdf_integral" \in eres.calls

\* normal_cdf_ln2 was called on a listed triple and returned its literal
C9_Witness ==
    /\ Returned /\ efn = "normal_cdf_ln2"
    /\ eargs = <<Fin(LN2_XY_B), Fin(LN2_XY_B), Fin(LN2_R_3)>>
    /\ eres.val.k = "lit" /\ eres.calls = {}

MathMin(a, b) == IF NumLe(a, b) THEN a ELSE b

\* C10: for all x and y that are not NaN, infinite ones included,
\* mpmath_normal_cdf2(x, y, 1) is ncdf(min(x, y)) and
\* mpmath_normal_cdf2(x, y, -1) is 0 whenever x + y <= 0; no quadrature runs.
C10_BoundaryLaw ==
    (/\ Returned /\ efn = "mpmath_normal_cdf2"
     /\ ~IsNaN(eargs[1]) /\ ~IsNaN(eargs[2])) =>
        /\ eargs[3] = Fin(ROne)
              => (eres.val = ncdf(MathMin(eargs[1], eargs[2])) /\ eres.quads = 0)
        /\ (eargs[3] = Fin(-ROne) /\ NumLe(NumAdd(eargs[1], eargs[2]), Fin(0)))
              => (eres.val = V_zero /\ eres.quads = 0)

\* r = 1 with x = +Infinity: the infinity guard answered, in line with the law
C10_Witness ==
    /\ Returned /\ efn = "mpmath_normal_cdf2"
    /\ eargs[3] = Fin(ROne) /\ eargs[1] = PosInf /\ IsFinite(eargs[2])
    /\ eres.val = V_ncdf(eargs[2].v)

\* the call with the first two arguments exchanged, under the same outcome of
\* the library
Mirror == mpmath_normal_cdf2(eargs[2], eargs[1], eargs[3], eq)
SamePair(a, b) == a[3] = b[3] /\ {a[1], a[2]} = {b[1], b[2]}

\* C11 as claimed: mpmath_normal_cdf2(x, y, r) and mpmath_normal_cdf2(y, x, r)
\* end the same way, both NaN or neither, and reach the same guard or the
\* same quadrature with the same local (x, y, r), for all x, y, r.
C11_SameGuardOrQuadrature ==
    (Returned /\ efn = "mpmath_normal_cdf2") =>
        /\ Mirror.exc = eres.exc
        /\ (Mirror.val.k = "nan") = (eres.val.k = "nan")
        /\ Mirror.qargs = eres.qargs

\* C11, amended: for x and y that are not NaN the two calls take the same
\* outcome (same number of quadratures and diagnostics, both NaN or neither)
\* and integrate over the same r and the same pair {x, y}; when |x| # |y|
\* the recursion depth and the local (x, y, r) are identical, and when
\* moreover r # -1 the two calls evaluate the identical expression.
C11_SymmetricUpToOrder ==
    (/\ Returned /\ efn = "mpmath_normal_cdf2"
     /\ ~IsNaN(eargs[1]) /\ ~IsNaN(eargs[2])) =>
        /\ Mirror.exc = eres.exc
        /\ Mirror.quads = eres.quads
        /\ Mirror.printed = eres.printed
        /\ (Mirror.val.k = "nan") = (eres.val.k = "nan")
        /\ Len(Mirror.qargs) = Len(eres.qargs)
        /\ \A i \in 1..Len(eres.qargs) : SamePair(Mirror.qargs[i], eres.qargs[i])
        /\ NumAbs(eargs[1]) # NumAbs(eargs[2])
              => /\ Mirror.qargs = eres.qargs
                 /\ Mirror.depth = eres.depth
                 /\ eargs[3] # Fin(-ROne) => Mirror.val = eres.val

\* a call with |y| > |x| that swapped its arguments and integrated
C11_Witness ==
    /\ Returned /\ efn = "mpmath_normal_cdf2"
    /\ IsFinite(eargs[1]) /\ IsFinite(eargs[2])
    /\ NeedSwap(eargs[1], eargs[2])
    /\ eres.quads = 1 /\ eres.exc = "none"
    /\ eres.qargs[1][1] \in {eargs[2], NumNeg(eargs[2])}
    /\ Mirror.qargs = eres.qargs

Cdf2Fns == {"mpmath_normal_cdf2", "normal_cdf2", "normal_cdf_ln2"}

\* C12: for inputs that are not NaN with -1 <= r <= 1, every call of
\* mpmath.quad made by mpmath_normal_cdf2 has local arguments with x and y
\* finite, |x| >= |y|, 0 <= r, r # 1 and x + y <= 0.
C12_ResidualRegion ==
    (/\ Returned /\ efn \in Cdf2Fns
     /\ \A i \in 1..3 : ~IsNaN(eargs[i])
     /\ NumLe(Fin(-ROne), eargs[3]) /\ NumLe(eargs[3], Fin(ROne))) =>
        \A i \in 1..Len(eres.qargs) :
            LET x == eres.qargs[i][1]
                y == eres.qargs[i][2]
                r == eres.qargs[i][3]
            IN  /\ IsFinite(x) /\ IsFinite(y)
                /\ y.v * y.v <= x.v * x.v
                /\ NumLe(Fin(0), r) /\ r # Fin(ROne)
                /\ NumLe(NumAdd(x, y), Fin(0))

\* a call with r < 0 and |y| > |x| that reached the quadrature after the swap
\* and both reflections
C12_Witness ==
    /\ Returned /\ efn = "mpmath_normal_cdf2"
    /\ IsFinite(eargs[1]) /\ IsFinite(eargs[2])
    /\ NeedSwap(eargs[1], eargs[2])
    /\ NumLt(eargs[3], Fin(0)) /\ eargs[3] # Fin(-ROne)
    /\ eres.depth = 2 /\ eres.quads = 1
    /\ eres.qargs[1][3] = NumNeg(eargs[3])

\* C13 as claimed: mpmath.mp.dps is set before the first evaluation of a batch
\* and is 500 whenever an evaluation starts, whenever an mpmath primitive or
\* quadrature runs and whenever it is assigned.
C13_PrecisionSetBeforeBatch ==
    \A e \in dpslog : e[2] = WorkDps

\* C13, amended: every assignment of mpmath.mp.dps sets 500 and every mpmath
\* primitive or quadrature of an evaluation runs under 500.  Only the
\* PythonScripts version sets the precision before the batch; the
\* GenerateSeries version sets it inside each evaluator, after the
\* closed-form guards, so its evaluations start under mpmath's default until
\* the first of them passes its guards.
C13_PrimitivesUnderWorkDps ==
    /\ \A e \in dpslog : e[1] \in {"set", "prim"} => e[2] = WorkDps
    /\ dps \in {DefaultDps, WorkDps}
    /\ script = "PythonScripts" => (dps = WorkDps /\ \A e \in dpslog : e[2] = WorkDps)
    /\ script = "GenerateSeries" => (dps = WorkDps <=> <<"set", WorkDps>> \in dpslog)

\* the GenerateSeries version started an evaluation under the default
\* precision and later ran its primitives under 500
C13_Witness ==
    /\ script = "GenerateSeries"
    /\ <<"eval", DefaultDps>> \in dpslog
    /\ <<"prim", WorkDps>> \in dpslog

\* s holds sub as a substring
Contains(s, sub) ==
    \E i \in 1..(Len(s) - Len(sub) + 1) : SubSeq(s, i, i + Len(sub) - 1) = sub
\* a finite decimal text: digits, sign, point and exponent mark only
IsDecimal(s) ==
    /\ s # <<>>
    /\ \A i \in 1..Len(s) :
          s[i] \in {"0", "1", "2", "3", "4", "5", "6", "7", "8", "9", ".", "-", "+", "e", "E"}
NonFiniteResults == {STR_nan, STR_inf, STR_neginf, STR_oo, STR_negoo}

\* C14: 'Infinity', '-Infinity' and 'NaN' survive reading then writing; the
\* result texts 'nan', 'inf', '-inf', 'oo' and '-oo' are written as one of
\* the three sentinels; a finite decimal text is unchanged by either
\* conversion; and a text is changed only where it holds the exact
\* (case-sensitive) 'NaN' or 'Infinity' (reading), 'nan', 'inf' or 'oo'
\* (writing).
C14_SentinelVocabularyClosed ==
    efn = "text" =>
        /\ (epc = "roundtrip" /\ eargs[1] \in Sentinels) => eres = eargs[1]
        /\ (epc = "written" /\ eargs[1] \in NonFiniteResults) => eres \in Sentinels
        /\ (epc \in {"read", "written", "roundtrip"} /\ IsDecimal(eargs[1]))
              => eres = eargs[1]
        /\ (epc = "read" /\ ~Contains(eargs[1], STR_NaN)
                /\ ~Contains(eargs[1], STR_Infinity)) => eres = eargs[1]
        /\ (epc = "written" /\ ~Contains(eargs[1], STR_nan)
                /\ ~Contains(eargs[1], STR_inf) /\ ~Contains(eargs[1], STR_oo))
              => eres = eargs[1]

\* the result text '-oo' was written as '-Infinity'
C14_Witness ==
    /\ efn = "text" /\ epc = "written"
    /\ eargs[1] = STR_negoo /\ eres = STR_NegInfinity

SeriesLength == Len(eargs[2]) - 1
LastTwo == <<eargs[2][SeriesLength - 1], eargs[2][SeriesLength]>>

\* C15 as claimed: print_error_bound prints an error bound exactly when the
\* last two coefficients are non-zero with opposite signs; a zero among the
\* last two coefficients is no sign alternation; nothing is raised when
\* nothing is printed.
C15_PrintsIffAlternating ==
    (Returned /\ efn = "print_error_bound") =>
        /\ (eres.lines # <<>>) <=> (LastTwo[1] * LastTwo[2] < 0)
        /\ eres.lines = <<>> => eres.exc = "none"

\* C16: when print_error_bound prints its two lines, the exponent of the
\* 'Error is at most' line is series_length, next is |coefficient(series_length)|,
\* and the radius has order series_length for a named offset or a non-zero
\* coefficients[0], series_length - 1 for the offset |coefficients[1]| and
\* series_length - 2 for the offset |coefficients[2]|.
C16_RadiusOrder ==
    (Returned /\ efn = "print_error_bound" /\ Len(eres.lines) = 2) =>
        LET n == SeriesLength
            c == eargs[2]
            e == eres.lines[1]
            u == eres.lines[2]
        IN  /\ e.power = n /\ e.coef = abs(c[n + 1])
            /\ u.next = abs(c[n + 1])
            /\ IF NamedOffset(eargs[1]) # "none"
               THEN u.order = n /\ u.offset = [k |-> "named", v |-> NamedOffset(eargs[1])]
               ELSE IF c[1] # 0
               THEN u.order = n /\ u.offset = [k |-> "abs", v |-> abs(c[1])]
               ELSE IF c[2] # 0
               THEN u.order = n - 1 /\ u.offset = [k |-> "abs", v |-> abs(c[2])]
               ELSE u.order = n - 2 /\ u.offset = [k |-> "abs", v |-> abs(c[3])]

\* a series without a named offset whose first two coefficients are zero:
\* the offset is |coefficients[2]| and the order series_length - 2
C16_Witness ==
    /\ Returned /\ efn = "print_error_bound"
    /\ eargs[1] = NAME_Log1Plus
    /\ eargs[2][1] = 0 /\ eargs[2][2] = 0 /\ eargs[2][3] # 0
    /\ Len(eres.lines) = 2
    /\ eres.lines[2].order = SeriesLength - 2
    /\ eres.lines[1].power = SeriesLength

\* c[i] as the recurrence uses it: 1 for i = 0, the returned element otherwise
UsedCoefficient(i) == IF i = 0 THEN Rat(1, 1) ELSE eres.out[i + 1]

\* C18: get_reciprocal_factorial_minus_1_coefficients(count) returns count
\* coefficients; element 0 is 0; element k, 1 <= k < count, is
\* (1/k) * sum over i in 0..k-1 of c[i] * zetas[k-i-1], with c[0] = 1; zetas
\* holds count constants.
C18_Recurrence ==
    (Returned /\ efn = NAME_get_rfm1) =>
        LET count == eargs[1]
            zetas == eargs[2]
        IN  /\ Len(eres.out) = count /\ Len(zetas) = count
            /\ count >= 1 => eres.out[1] = Rat(0, 1)
            /\ \A k \in 1..(count - 1) :
                  eres.out[k + 1] =
                      RatDivInt(RatSum([j \in 1..k |->
                                    RatMul(UsedCoefficient(j - 1), zetas[k - j + 1])]), k)

\* a call with count >= 3 whose element 2 is a proper fraction: the division
\* by k = 2 shows
C18_Witness ==
    /\ Returned /\ efn = NAME_get_rfm1
    /\ eargs[1] >= 3 /\ Len(eres.out) = eargs[1]
    /\ eres.out[3].d # 1
    /\ eres.out[2] # Rat(0, 1)

\* what f(*args) does on row j of file i, and whether that row is evaluated
RowArgs(i, j) ==
    [a \in 1..(Len(orig[i].fieldnames) - 1) |->
        Float(float_str_csharp_to_python(orig[i].rows[j][ArgName(a - 1)]))]
RowResult(i, j) ==
    Apply(script, pair_info(script)[DirEntries[i].name], RowArgs(i, j), lib)
RaisedValueError(i, j) == <<i, j>> \in called /\ RowResult(i, j).exc = "ValueError"

\* C19: a row whose evaluation raised ValueError is written with 'NaN'; the
\* file is still rewritten with all its rows; every other row has its own
\* cells and its own result, as without the error.
C19_ValueErrorBecomesNaN ==
    /\ \A i \in written :
          \A j \in 1..Len(orig[i].rows) :
              RaisedValueError(i, j) =>
                  /\ Len(files[i].rows) = Len(orig[i].rows)
                  /\ files[i].rows[j].expectedresult = STR_NaN
                  /\ \A j2 \in 1..Len(orig[i].rows) :
                        /\ files[i].rows[j2].arg0 = orig[i].rows[j2].arg0
                        /\ files[i].rows[j2].arg1 = orig[i].rows[j2].arg1
                        /\ <<i, j2>> \notin called =>
                              files[i].rows[j2].expectedresult
                                  = orig[i].rows[j2].expectedresult
                        /\ (<<i, j2>> \in called /\ RowResult(i, j2).exc = "none") =>
                              files[i].rows[j2].expectedresult
                                  = float_str_python_to_csharp(result_str(RowResult(i, j2).val))
    /\ pc = "done" => \A c \in called : c[1] \in written

\* a rewritten file in which one row raised ValueError and a later row was
\* evaluated to a number
C19_Witness ==
    \E i \in written :
        \E j, j2 \in 1..Len(orig[i].rows) :
            /\ j < j2
            /\ RaisedValueError(i, j)
            /\ files[i].rows[j].expectedresult = STR_NaN
            /\ orig[i].rows[j].expectedresult # STR_NaN
            /\ <<i, j2>> \in called /\ RowResult(i, j2).exc = "none"
            /\ files[i].rows[j2].expectedresult \notin Sentinels

\* C20: a row is reported for a library exactly when result and expected
\* value are not both NaN, are not equal, and the relative error exceeds
\* 1e-13 or is NaN; an exception counts as the result NaN; when the file is
\* done it was checked against every library with an entry for it, and
\* against no other.
C20_ReportedIffWrong ==
    efn = "CheckMathLibraries" =>
        /\ eres.last.lib # "none" =>
              LET r == eres.last.result
                  e == eargs[2][eres.last.row]
              IN  /\ eres.last.raised => r = DNaN
                  /\ eres.last.printed <=>
                        /\ ~(r.k = "nan" /\ e.k = "nan")
                        /\ (r.k = "nan" \/ e.k = "nan" \/ r # e)
                        /\ \/ r.k # "fin" \/ e.k # "fin"
                           \/ RatioExceeds(AbsDiff(r, e), <<e.hi, e.lo>>)
        /\ (epc = "done" /\ endswith(eargs[1], STR_csv)) =>
              eres.entered = {LibNames[l] : l \in {l \in 1..Len(LibNames) :
                                                    eargs[1] \in pair_infos(LibNames[l])}}

\* the library raised on a row whose expected value is NaN: nothing is printed
C20_Witness ==
    /\ efn = "CheckMathLibraries"
    /\ eres.last.lib = "scipy" /\ eres.last.raised /\ ~eres.last.printed
    /\ eargs[2][eres.last.row] = DNaN
    /\ eres.entered = {"math", "scipy"}

MotifShape(k) ==
    /\ Len(eres.sequenceData[k]) = eargs[2]
    /\ \/ eres.motifPositionData[k] = -1 /\ Len(eres.parts[k]) = 1
       \/ /\ eres.motifPositionData[k] \in 0..(eargs[2] - eargs[3])
          /\ Len(eres.parts[k]) = 3
          /\ eres.parts[k][1] = eres.motifPositionData[k]
          /\ eres.parts[k][2] = eargs[3]
          /\ eres.parts[k][1] + eres.parts[k][2] + eres.parts[k][3] = eargs[2]

RECURSIVE SumSeq(_)
SumSeq(v) == IF v = <<>> THEN 0 ELSE Head(v) + SumSeq(Tail(v))

\* the n-tuples of non-negative integers that sum to total
Tuples(n, total) == {t \in [1..n -> 0..total] : SumSeq(t) = total}

InnerLoopShape ==
    (efn = "normcdfln_asymptotic_coefficient" /\ eres.n >= 2) =>
        LET m == eargs[1]
            n == eres.n
            seen == IF epc = "while" THEN Append(eres.visited, eres.deltas) ELSE eres.visited
        IN  /\ seen[1] = [k \in 1..n |-> IF k = n THEN m - n ELSE 0]
            /\ \A i \in 1..Len(seen) :
                  /\ SumSeq(seen[i]) = m - n
                  /\ \A k \in 1..n : seen[i][k] >= 0
            /\ \A i, j \in 1..Len(seen) : i # j => seen[i] # seen[j]
            /\ epc # "while" => {seen[i] : i \in 1..Len(seen)} = Tuples(n, m - n)

\* C22: for every n in 2..m the inner loop starts from (0,...,0,m-n), keeps
\* the sum of deltas at m-n, visits every n-tuple of non-negative integers
\* with that sum exactly once, and the function returns.
C22_EveryCompositionOnce == []InnerLoopShape /\ <>(epc = "returned")

\* the loop for m = 5, n = 3 has ended after its six tuples
C22_Witness ==
    /\ efn = "normcdfln_asymptotic_coefficient" /\ epc = "for"
    /\ eargs[1] = 5 /\ eres.n = 3
    /\ Len(eres.visited) = 6
    /\ eres.visited[6] = <<2, 0, 0>>

\* C23: a rewritten file has the header it had, as many rows in the same
\* order, and every argument cell unchanged; only expectedresult may differ.
C23_OnlyResultColumnChanges ==
    \A i \in written :
        /\ files[i].fieldnames = orig[i].fieldnames
        /\ Len(files[i].rows) = Len(orig[i].rows)
        /\ \A k \in 1..Len(orig[i].rows) :
              /\ files[i].rows[k].arg0 = orig[i].rows[k].arg0
              /\ files[i].rows[k].arg1 = orig[i].rows[k].arg1

\* a rewritten file whose first row kept its '-Infinity' argument cell and got
\* a new expectedresult
C23_Witness ==
    \E i \in written :
        /\ Len(orig[i].rows) >= 2
        /\ orig[i].rows[1].arg0 = STR_NegInfinity
        /\ files[i].rows[1].arg0 = STR_NegInfinity
        /\ files[i].rows[1].expectedresult # orig[i].rows[1].expectedresult

\* a write happens with the reader exhausted and every row evaluated
WriteAfterRead ==
    files' # files =>
        /\ pc = "rows" /\ rowi > Len(files[idx].rows)
        /\ Len(newrows) = Len(files[idx].rows)
        /\ \A i \in 1..Len(files) : i # idx => files'[i] = files[i]

\* rewritten files stay as they were written
RewrittenStay ==
    /\ written \subseteq written'
    /\ \A i \in written : files'[i] = files[i]

\* a run stopped by an exception left the file being processed as it was
StoppedUnchanged ==
    pc = "crashed" => (idx \notin written /\ files[idx] = orig[idx])

\* C24: a file is written only after all of its rows were read and evaluated
\* and the reader closed; when a row raises an exception other than
\* ValueError the run stops with that file unchanged, and the files
\* rewritten before stay rewritten.
C24_WriteOnlyAfterAllRows ==
    []StoppedUnchanged /\ [][WriteAfterRead /\ RewrittenStay]_vars

\* the quadrature raised ZeroDivisionError in the third entry after the first
\* had been rewritten
C24_Witness ==
    /\ pc = "crashed" /\ lib.exc = "ZeroDivisionError"
    /\ written = {1} /\ idx = 3
    /\ files[1] # orig[1]
    /\ files[3] = orig[3]

\* one of the five closed-form guards answers the call
Cdf2Guarded(x, y, r) ==
    \/ NumEq(x, NegInf) \/ NumEq(y, NegInf)
    \/ NumEq(x, PosInf) \/ NumEq(y, PosInf)
    \/ NumEq(r, Fin(ROne)) \/ NumEq(r, Fin(-ROne))

\* C25: every call of mpmath_normal_cdf2 returns; a guarded call makes no
\* recursive call and no quadrature; any other call nests at most two
\* recursive calls, at least one when r < 0 and two only when r < 0, and
\* ends in exactly one quadrature.
C25_BoundedRecursion ==
    (Returned /\ efn = "mpmath_normal_cdf2") =>
        IF Cdf2Guarded(eargs[1], eargs[2], eargs[3])
        THEN eres.depth = 0 /\ eres.quads = 0
        ELSE /\ eres.depth <= 2
             /\ NumLt(eargs[3], Fin(0)) => eres.depth >= 1
             /\ eres.depth = 2 => NumLt(eargs[3], Fin(0))
             /\ eres.quads = 1

\* r < 0 and, after the reflection of y, a positive sum: two nested calls
C25_Witness ==
    /\ Returned /\ efn = "mpmath_normal_cdf2"
    /\ eargs = <<Fin(10), Fin(-10), Fin(-5000000)>>
    /\ eres.depth = 2 /\ eres.quads = 1

\* the arguments on which normal_cdf_integral takes its recursive branch:
\* finite x > 0 and y > 0, r neither 1 nor -1, and 1 + r < 1e-12
IntegralRecurses(x, y, r) ==
    /\ IsFinite(x) /\ IsFinite(y) /\ IsFinite(r)
    /\ x.v > 0 /\ y.v > 0
    /\ r.v # ROne /\ r.v # -ROne
    /\ ROne + r.v < RTiny

\* C26: every call of normal_cdf_integral returns or raises; on its recursive
\* branch it makes exactly two calls of itself, neither of which recurses;
\* everywhere else it makes none.
C26_IntegralRecursionBounded ==
    (Returned /\ efn = "normal_cdf_integral") =>
        /\ eres.inest <= 1
        /\ IF IntegralRecurses(eargs[1], eargs[2], eargs[3])
           THEN eres.inest = 1 /\ eres.icalls = 2
           ELSE eres.inest = 0 /\ eres.icalls = 0

\* x > 0, y > 0 and r just above -1: the recursive branch was taken and its
\* second call reached the quadrature
C26_Witness ==
    /\ Returned /\ efn = "normal_cdf_integral"
    /\ eargs = <<Fin(10), Fin(10), Fin(1 - ROne)>>
    /\ eres.inest = 1 /\ eres.icalls = 2 /\ eres.quads = 1

\* a returned term that cannot be negative: 0, 1, NaN, an ncdf value, the
\* integral of the non-negative integrand, a difference clamped at 0, a sum
\* of such terms, or ncdf(a) - ncdf(b) with a >= b (ncdf is increasing)
RECURSIVE NotNegative(_)
NotNegative(v) ==
    CASE v.k \in {"zero", "one", "nan", "ncdf", "quad", "max0"} -> TRUE
      [] v.k = "add" -> NotNegative(v.a) /\ NotNegative(v.b)
      [] v.k = "sub" ->
            \/ v.a.k = "nan" \/ v.b.k = "nan"
            \/ v.b.k = "zero" /\ NotNegative(v.a)
            \/ v.a.k = "one" /\ v.b.k \in {"ncdf", "one"}
            \/ v.a.k = "ncdf" /\ v.b.k = "ncdf" /\ v.a.a >= v.b.a
      [] OTHER -> FALSE

\* C27: for -1 <= r <= 1 the value mpmath_normal_cdf2 returns is never
\* negative: it is built from 0, ncdf values, a difference clamped at 0, the
\* term ncdf(x) - ncdf(-y) taken only where x > -y, and a quadrature over
\* [-1, r] with 0 <= r <= 1.
C27_NeverNegative ==
    (/\ Returned /\ efn = "mpmath_normal_cdf2" /\ eres.exc = "none"
     /\ NumLe(Fin(-ROne), eargs[3]) /\ NumLe(eargs[3], Fin(ROne))) =>
        /\ NotNegative(eres.val)
        /\ \A i \in 1..Len(eres.qargs) :
              NumLe(Fin(0), eres.qargs[i][3]) /\ NumLe(eres.qargs[i][3], Fin(ROne))

\* r < 0 and a positive sum after the reflection: the clamped difference of
\* ncdf(x) and a quadrature plus the strip term
C27_Witness ==
    /\ Returned /\ efn = "mpmath_normal_cdf2" /\ eres.exc = "none"
    /\ eargs = <<Fin(20), Fin(-10), Fin(-5000000)>>
    /\ eres.val.k = "max0" /\ eres.val.a.k = "sub"
    /\ eres.val.a.b.k = "add" /\ eres.val.a.b.b.k = "sub"

\* the four argument triples normal_cdf_integral_ratio answers from a table
RatioTabulated(x, y, r) ==
    \/ x = Fin(IR_X_1) /\ y = Fin(IR_Y_1) /\ r = Fin(IR_R_1)
    \/ x = Fin(IR_X_2) /\ y = Fin(IR_Y_2) /\ r = Fin(IR_R_2)
    \/ x = Fin(IR_X_3) /\ y \in {Fin(IR_Y_3), Fin(IR_Y_4)} /\ r = Fin(IR_R_3)

\* C28: when normal_cdf_integral(x, y, r) is 0, normal_cdf_integral_ratio
\* returns that 0 and normal_cdf2 is not called; otherwise it returns
\* integral / normal_cdf2(x, y, r) with normal_cdf2 called once at the top
\* level.
C28_NoDivisionWhenIntegralZero ==
    (/\ Returned /\ efn = "normal_cdf_integral_ratio"
     /\ ~RatioTabulated(eargs[1], eargs[2], eargs[3])) =>
        LET int_z == normal_cdf_integral(eargs[1], eargs[2], eargs[3], eq)
            z == normal_cdf2(eargs[1], eargs[2], eargs[3], eq)
        IN  IF int_z.exc # "none" THEN eres.exc = int_z.exc /\ eres.quads = int_z.quads
            ELSE IF int_z.val.k = "zero" \/ int_z.val = Lit("0.0")
            THEN /\ eres.exc = "none" /\ eres.val = int_z.val
                 /\ eres.quads = 0
                 /\ "mpmath_normal_cdf2" \notin eres.calls
            ELSE /\ eres.quads = int_z.quads + z.quads
                 /\ eres.quads <= int_z.quads + 1
                 /\ "mpmath_normal_cdf2" \in eres.calls
                 /\ eres.exc = "none" =>
                       eres.val = V_expr("int_z / z", <<int_z.val, z.val>>)

\* x = -oo: the integral is Float('0.0') and is returned as it is
C28_Witness ==
    /\ Returned /\ efn = "normal_cdf_integral_ratio"
    /\ eargs[1] = NegInf /\ eargs[2] = Fin(10) /\ eargs[3] = Fin(0)
    /\ eres.val = Lit("0.0") /\ eres.quads = 0 /\ eres.calls = {"normal_cdf_integral"}

\* C29: logistic_gaussian returns oo at m = v = +oo, 1.0 at m = +oo with v
\* finite, 0.5 at v = +oo with m # +oo; logistic_gaussian_deriv and
\* logistic_gaussian_deriv2 return 0.0 when m or v is infinite of either
\* sign; none of these calls integrates.
C29_LimitingValues ==
    Returned =>
        LET m == eargs[1]
            v == eargs[2]
        IN  /\ (efn = "logistic_gaussian" /\ m = PosInf /\ v = PosInf) =>
                  eres.val = V_oo /\ eres.exc = "none" /\ eres.quads = 0
            /\ (efn = "logistic_gaussian" /\ m = PosInf /\ IsFinite(v)) =>
                  eres.val = Lit("1.0") /\ eres.exc = "none" /\ eres.quads = 0
            /\ (efn = "logistic_gaussian" /\ v = PosInf /\ m # PosInf) =>
                  eres.val = Lit("0.5") /\ eres.exc = "none" /\ eres.quads = 0
            /\ (/\ efn \in {"logistic_gaussian_deriv", "logistic_gaussian_deriv2"}
                /\ \/ m \in {PosInf, NegInf}
                   \/ v \in {PosInf, NegInf}) =>
                  eres.val = Lit("0.0") /\ eres.exc = "none" /\ eres.quads = 0

\* m = v = +oo in the GenerateSeries version: the m test decided, oo returned
C29_Witness ==
    /\ Returned /\ efn = "logistic_gaussian" /\ script = "GenerateSeries"
    /\ eargs = <<PosInf, PosInf>>
    /\ eres.val = V_oo /\ eres.quads = 0

\* polynomials in the printed variable: the sequence of their coefficients,
\* lowest power first, without trailing zeros
RECURSIVE PolyTrim(_)
PolyTrim(p) ==
    IF p = <<>> THEN <<>>
    ELSE IF p[Len(p)].n = 0 THEN PolyTrim(SubSeq(p, 1, Len(p) - 1))
    ELSE p
PolyAt(p, k) == IF k <= Len(p) THEN p[k] ELSE Rat(0, 1)
PolyAdd(p, r) ==
    PolyTrim([k \in 1..(IF Len(p) > Len(r) THEN Len(p) ELSE Len(r)) |->
                 RatAdd(PolyAt(p, k), PolyAt(r, k))])
PolyMul(p, r) ==
    IF p = <<>> \/ r = <<>> THEN <<>>
    ELSE PolyTrim([k \in 1..(Len(p) + Len(r) - 1) |->
             RatSum([j \in 1..Len(p) |->
                 IF k - j + 1 >= 1 /\ k - j + 1 <= Len(r)
                 THEN RatMul(p[j], r[k - j + 1]) ELSE Rat(0, 1)])])
\* p / r for a non-zero constant r
PolyDivConst(p, r) ==
    [k \in 1..Len(p) |->
        RatMul(p[k], IF r[1].n > 0 THEN Rat(r[1].d, r[1].n) ELSE Rat(-r[1].d, -r[1].n))]

\* the value of a printed expression, read with the usual precedence of '+',
\* '*', '/' and parentheses; ok is FALSE where the text is not an expression
Malformed(i) == [ok |-> FALSE, p |-> <<>>, i |-> i]
RECURSIVE ParseExpr(_, _)
RECURSIVE ParseSum(_, _)
RECURSIVE ParseTerm(_, _)
RECURSIVE ParseProduct(_, _)
RECURSIVE ParseFactor(_, _)
ParseFactor(toks, i) ==
    IF i > Len(toks) THEN Malformed(i)
    ELSE IF toks[i].t = "num" THEN [ok |-> TRUE, p |-> PolyTrim(<<toks[i].v>>), i |-> i + 1]
    ELSE IF toks[i].t = "x" THEN [ok |-> TRUE, p |-> <<Rat(0, 1), Rat(1, 1)>>, i |-> i + 1]
    ELSE IF toks[i].t = "("
    THEN LET e == ParseExpr(toks, i + 1)
         IN  IF e.ok /\ e.i <= Len(toks) /\ toks[e.i].t = ")"
             THEN [e EXCEPT !.i = @ + 1] ELSE Malformed(i)
    ELSE Malformed(i)
ParseProduct(toks, left) ==
    IF left.i <= Len(toks) /\ toks[left.i].t \in {"*", "/"}
    THEN LET f == ParseFactor(toks, left.i + 1)
         IN  IF ~f.ok THEN Malformed(left.i)
             ELSE IF toks[left.i].t = "*"
             THEN ParseProduct(toks, [f EXCEPT !.p = PolyMul(left.p, f.p)])
             ELSE IF Len(f.p) # 1 THEN Malformed(left.i)
             ELSE ParseProduct(toks, [f EXCEPT !.p = PolyDivConst(left.p, f.p)])
    ELSE left
ParseTerm(toks, i) ==
    LET f == ParseFactor(toks, i) IN IF f.ok THEN ParseProduct(toks, f) ELSE f
ParseSum(toks, left) ==
    IF left.i <= Len(toks) /\ toks[left.i].t = "+"
    THEN LET t == ParseTerm(toks, left.i + 1)
         IN  IF ~t.ok THEN Malformed(left.i)
             ELSE ParseSum(toks, [t EXCEPT !.p = PolyAdd(left.p, t.p)])
    ELSE left
ParseExpr(toks, i) ==
    LET t == ParseTerm(toks, i) IN IF t.ok THEN ParseSum(toks, t) ELSE t

Count(toks, t) == Cardinality({i \in 1..Len(toks) : toks[i].t = t})

\* C30: for a coefficient list of length >= 2 each printer returns, having
\* printed an expression with as many '(' as ')' and no dangling '+', whose
\* value is the sum of coefficients[k] * var^k.
C30_PrintsThePolynomial ==
    (Returned /\ efn \in Printers /\ Len(eargs[1]) >= 2) =>
        /\ eres.exc = "none"
        /\ Count(eres.out, "(") = Count(eres.out, ")")
        /\ LET e == ParseExpr(eres.out, 1)
           IN  e.ok /\ e.i = Len(eres.out) + 1 /\ e.p = PolyTrim(eargs[1])

=============================================================================
